---- MODULE Spec2Model ----
(***************************************************************************)
(* Level codec and validator of pvzm-backend (src/modules/levels_io.ts,    *)
(* src/modules/decode.ts, src/modules/validate.ts).                        *)
(*                                                                         *)
(* The codec and the validator are pure functions; each is an operator     *)
(* here, computed as the code computes it, and each has a specification    *)
(* whose initial states draw an input and whose actions apply the          *)
(* functions to it:                                                        *)
(*   SpecPack      packFromArray / unpackToArray                           *)
(*   SpecCodec     encodeIZL3File / encodeIZL3String / decodeBytes /       *)
(*                 decodeString                                            *)
(*   SpecValidate  validateClone                                           *)
(*   SpecDetect    detectFileVersion / decodeBytes / decodeFile (decode.ts)*)
(*   SpecString    detectStringVersion / decodeString / decodeLevelData    *)
(***************************************************************************)
EXTENDS Integers, Sequences, FiniteSets, TLC

VARIABLES
    pc,        \* position of the run: which function has been applied
    arr,       \* bit-packer: the input sequence (an lfValue)
    packed,    \* bit-packer: what packFromArray returned or threw
    unpacked,  \* bit-packer: what unpackToArray returned
    clone,     \* codec / validator: the input Clone
    encoded,   \* codec: what encodeIZL3File or encodeIZL3String returned or threw
    decoded,   \* codec: what decodeBytes or decodeString made of the encoder's output
    validation,   \* validator: what validateClone returned
    buf,       \* format detection: the input byte buffer
    str,       \* format detection: the input string
    routed,    \* format detection: the entry point called, the decoder it chose, the outcome
    admin_tokens, \* one-time tokens: the rows of table admin_tokens
    issued,    \* one-time tokens: every row ever inserted (history)
    through,   \* one-time tokens: the requests without session let through (history)
    last,      \* one-time tokens: the last request on /api/admin/levels/:id and its answer
    levels,    \* server: the rows of table levels, by id
    favorites, \* server: the rows of table favorites
    authors,   \* server: the rows of table authors
    files,     \* server: the files of the data folder, by name
    uploadRateLimitByIp,    \* server: time of the last upload let through, by IP
    downloadRateLimitByIp,  \* server: download events and block, by IP
    favoriteRateLimitByIp,  \* server: times of the favorite requests let through, by IP
    nowMs,     \* server: Date.now()
    res        \* server: the last request and the response to it

packVars == <<arr, packed, unpacked>>
codecVars == <<clone, encoded, decoded>>
validateVars == <<validation>>
detectVars == <<buf, str, routed>>
tokenVars == <<admin_tokens, issued, through, last>>
serverVars == <<levels, favorites, authors, files, uploadRateLimitByIp,
                downloadRateLimitByIp, favoriteRateLimitByIp, nowMs, res>>
vars == <<pc, arr, packed, unpacked, clone, encoded, decoded, validation, buf, str, routed,
          admin_tokens, issued, through, last, levels, favorites, authors, files,
          uploadRateLimitByIp, downloadRateLimitByIp, favoriteRateLimitByIp, nowMs, res>>

\* The value of a variable that a run does not use or has not yet set.
Unset == [unset |-> TRUE]

(***************************************************************************)
(* Integer helpers: JavaScript's <<, >>, & and | on the small non-negative *)
(* int32 values the packer handles (all below 2^18, so no wrap-around).    *)
(***************************************************************************)
Pow2(k) == 2 ^ k

ShiftLeft(v, k) == v * Pow2(k)

ShiftRight(v, k) == v \div Pow2(k)

RECURSIVE BitOr(_, _)
BitOr(a, b) ==
    IF a = 0 THEN b
    ELSE IF b = 0 THEN a
    ELSE (IF (a % 2 = 1) \/ (b % 2 = 1) THEN 1 ELSE 0) + 2 * BitOr(a \div 2, b \div 2)

BitAnd3(v) == v % 4

\* Bit k of the non-negative integer v.
Bit(v, k) == ShiftRight(v, k) % 2

(***************************************************************************)
(* Bit-packed flag array codec (levels_io.ts 128-158)                      *)
(***************************************************************************)
MIN_LF_LENGTH == 6
MAX_LF_LENGTH == 9
MAX_LF_ELEMENT == 3

Threw(kind, info) == [threw |-> TRUE, kind |-> kind, info |-> info]
Returned(v) == [threw |-> FALSE, value |-> v]

\* The loop of packFromArray from index i (1-based here) with accumulator acc:
\* throws at the first element that is not an integer 0-3.
RECURSIVE packLoop(_, _, _)
packLoop(a, i, acc) ==
    IF i > Len(a) THEN Returned(acc)
    ELSE IF a[i] < 0 \/ a[i] > MAX_LF_ELEMENT
         THEN Threw("lfValue element must be an integer 0-3", <<i - 1, a[i]>>)
         ELSE packLoop(a, i + 1, BitOr(acc, ShiftLeft(a[i], (i - 1) * 2)))

\* packFromArray without its length guard (the mutant of C9).
packFromArray_NoLengthCheck(a) ==
    LET body == packLoop(a, 1, 0) IN
    IF body.threw THEN body
    ELSE Returned(BitOr(body.value, ShiftLeft((Len(a) - MIN_LF_LENGTH) % 4, 14)))

packFromArray(a) ==
    IF Len(a) < MIN_LF_LENGTH \/ Len(a) > MAX_LF_LENGTH
    THEN Threw("lfValue must contain 6-9 elements", <<Len(a)>>)
    ELSE LET body == packLoop(a, 1, 0) IN
         IF body.threw THEN body
         ELSE Returned(BitOr(body.value, ShiftLeft(Len(a) - MIN_LF_LENGTH, 14)))

\* unpackToArray reading the length from bits 12-13 (the mutant of C11).
unpackToArray_LengthFromBits12(p) ==
    LET lengthBits == BitAnd3(ShiftRight(p, 12))
        length == lengthBits + 6
    IN  [i \in 1..length |-> BitAnd3(ShiftRight(p, (i - 1) * 2))]

unpackToArray(p) ==
    LET lengthBits == BitAnd3(ShiftRight(p, 14))
        length == lengthBits + 6
    IN  [i \in 1..length |-> BitAnd3(ShiftRight(p, (i - 1) * 2))]

(***************************************************************************)
(* SpecPack: an input sequence is drawn, packFromArray is applied to it    *)
(* and, when it returned, unpackToArray to its result.                     *)
(***************************************************************************)
\* How far outside the contract (length 6..9, elements 0..3) the inputs go.
LenSlack == 1
ValSlack == 1

\* Every sequence in the packer's contract.
ValidLf == UNION {[1..n -> 0..MAX_LF_ELEMENT] : n \in MIN_LF_LENGTH..MAX_LF_LENGTH}

TooShortLf ==
    UNION {[1..n -> 0..MAX_LF_ELEMENT] : n \in (MIN_LF_LENGTH - LenSlack)..(MIN_LF_LENGTH - 1)}

TooLongLf ==
    UNION {[1..n -> {0, MAX_LF_ELEMENT}] : n \in (MAX_LF_LENGTH + 1)..(MAX_LF_LENGTH + LenSlack)}

OutOfRangeValues ==
    ((0 - ValSlack)..(0 - 1)) \cup ((MAX_LF_ELEMENT + 1)..(MAX_LF_ELEMENT + ValSlack))

\* A sequence of a valid length with one element out of range.
BadElementOf(s) == {[s EXCEPT ![p] = x] : p \in 1..Len(s), x \in OutOfRangeValues}

BadElementLf ==
    UNION {UNION {BadElementOf(s) : s \in [1..n -> {0, MAX_LF_ELEMENT}]} :
             n \in MIN_LF_LENGTH..MAX_LF_LENGTH}

PackInputs == ValidLf \cup TooShortLf \cup TooLongLf \cup BadElementLf

InContract(a) ==
    /\ Len(a) \in MIN_LF_LENGTH..MAX_LF_LENGTH
    /\ \A i \in 1..Len(a) : a[i] \in 0..MAX_LF_ELEMENT

InitPack ==
    /\ pc = "pack.start"
    /\ arr \in PackInputs
    /\ packed = Unset
    /\ unpacked = Unset
    /\ clone = Unset /\ encoded = Unset /\ decoded = Unset
    /\ validation = Unset
    /\ buf = Unset /\ str = Unset /\ routed = Unset
    /\ admin_tokens = Unset /\ issued = Unset /\ through = Unset /\ last = Unset
    /\ levels = Unset /\ favorites = Unset /\ authors = Unset /\ files = Unset
    /\ uploadRateLimitByIp = Unset /\ downloadRateLimitByIp = Unset
    /\ favoriteRateLimitByIp = Unset /\ nowMs = Unset /\ res = Unset

Pack ==
    /\ pc = "pack.start"
    /\ packed' = packFromArray(arr)
    /\ pc' = "pack.packed"
    /\ UNCHANGED <<serverVars, tokenVars, arr, unpacked, codecVars, validateVars, detectVars>>

Unpack ==
    /\ pc = "pack.packed"
    /\ ~packed.threw
    /\ unpacked' = unpackToArray(packed.value)
    /\ pc' = "pack.unpacked"
    /\ UNCHANGED <<serverVars, tokenVars, arr, packed, codecVars, validateVars, detectVars>>

NextPack == Pack \/ Unpack

SpecPack == InitPack /\ [][NextPack]_vars

(***************************************************************************)
(* SpecUnpack: a packed number is drawn, whether or not packFromArray can  *)
(* produce it, and unpackToArray is applied to it.                         *)
(***************************************************************************)
\* The packed numbers drawn have this many bits.
PackedBits == 16

InitUnpack ==
    /\ pc = "unpack.start"
    /\ \E v \in 0..(Pow2(PackedBits) - 1) : packed = Returned(v)
    /\ arr = Unset /\ unpacked = Unset
    /\ clone = Unset /\ encoded = Unset /\ decoded = Unset
    /\ validation = Unset
    /\ buf = Unset /\ str = Unset /\ routed = Unset
    /\ admin_tokens = Unset /\ issued = Unset /\ through = Unset /\ last = Unset
    /\ levels = Unset /\ favorites = Unset /\ authors = Unset /\ files = Unset
    /\ uploadRateLimitByIp = Unset /\ downloadRateLimitByIp = Unset
    /\ favoriteRateLimitByIp = Unset /\ nowMs = Unset /\ res = Unset

UnpackAny ==
    /\ pc = "unpack.start"
    /\ unpacked' = unpackToArray(packed.value)
    /\ pc' = "unpack.done"
    /\ UNCHANGED <<serverVars, tokenVars, arr, packed, codecVars, validateVars, detectVars>>

NextUnpack == UnpackAny

SpecUnpack == InitUnpack /\ [][NextUnpack]_vars

(***************************************************************************)
(* JavaScript values whose type the code inspects (typeof v === "number",  *)
(* typeof v === "string") carry their type.  A placement's plantName is    *)
(* such a value: a string in a canonical Clone, a number or a string in    *)
(* the encoded form.                                                       *)
(***************************************************************************)
JSStr(s) == [t |-> "string", v |-> s]
JSNum(n) == [t |-> "number", v |-> n]

\* Array.prototype.includes / indexOf on an array of strings: a number is
\* never found.
Includes(list, x) == x.t = "string" /\ \E i \in 1..Len(list) : list[i] = x.v

(***************************************************************************)
(* The placeable-name list (levels_io.ts 71-123), in positional order.     *)
(***************************************************************************)
allPlantsStringArray ==
    << "oPeashooter", "oSunFlower", "oCherryBomb", "oWallNut", "oPotatoMine",
       "oSnowPea", "oChomper", "oRepeater", "oPuffShroom", "oSunShroom",
       "oFumeShroom", "oGraveBuster", "oHypnoShroom", "oScaredyShroom",
       "oIceShroom", "oDoomShroom", "oLilyPad", "oILilyPad", "oSquash",
       "oThreepeater", "oTangleKlep", "oJalapeno", "oSpikeweed", "oTorchwood",
       "oTallNut", "oCactus", "oPlantern", "oSplitPea", "oStarfruit",
       "oPumpkinHead", "oFlowerPot", "oCoffeeBean", "oGarlic", "oSeaShroom",
       "oOxygen", "ostar", "oTTS", "oGun", "oSeaAnemone", "oGatlingPea",
       "oGloomShroom", "oTwinSunflower", "oSpikerock", "oTenManNut",
       "oSnowRepeater", "oCattail", "oLotusRoot", "oIceFumeShroom",
       "oLaserBean", "oBigChomper", "oFlamesMushroom" >>

(***************************************************************************)
(* Semantic validator (validate.ts)                                        *)
(*                                                                         *)
(* A Clone is a function from the names of the fields it has to their      *)
(* values ("field in clone" is field \in DOMAIN clone); a placement        *)
(* likewise.  The numeric fields are integers.                             *)
(***************************************************************************)
Has(obj, field) == field \in DOMAIN obj

requiredProperties == <<"plants", "music", "sun", "name", "lfValue", "stripeCol">>

hasAllRequiredProperties(c) ==
    \A i \in 1..Len(requiredProperties) : Has(c, requiredProperties[i])

MAX_PLANTS_PER_TILE == 3

\* {} of the code's plantsPerTile / plantTypesByTile: no key yet.
EmptyMap == [x \in {} |-> 0]

\* `${plant.plantRow}-${plant.plantCol}`: one key per pair of integers.
tileKey(plant) == <<plant.plantRow, plant.plantCol>>

\* The loop of max3PlantsIn1Tile from placement i, plantsPerTile being the
\* counts so far (an absent key counts 0).
RECURSIVE max3Loop(_, _, _)
max3Loop(plants, i, plantsPerTile) ==
    IF i > Len(plants) THEN TRUE
    ELSE LET k == tileKey(plants[i])
             n == (IF k \in DOMAIN plantsPerTile THEN plantsPerTile[k] ELSE 0) + 1
         IN  IF n > MAX_PLANTS_PER_TILE THEN FALSE
             ELSE max3Loop(plants, i + 1,
                           [x \in DOMAIN plantsPerTile \cup {k} |->
                               IF x = k THEN n ELSE plantsPerTile[x]])

max3PlantsIn1Tile(c) == max3Loop(c.plants, 1, EmptyMap)

MAX_LF_LENGTH_VALIDATED == 7

maxLfLength7(c) == Len(c.lfValue) <= MAX_LF_LENGTH_VALIDATED

MAX_SUN == 9990

maxSun9990(c) == c.sun <= MAX_SUN

allowedMusicTracks == <<"Cerebrawl">>

validMusic(c) == \E i \in 1..Len(allowedMusicTracks) : allowedMusicTracks[i] = c.music

MIN_STRIPE_COL == 3
MAX_STRIPE_COL == 8

validStripeCol(c) ==
    /\ Has(c, "stripeCol")
    /\ c.stripeCol >= MIN_STRIPE_COL
    /\ c.stripeCol <= MAX_STRIPE_COL

MAX_PLANTS_WATER == 108
MAX_PLANTS_LAND == 90
PER_STRIPE_COL_WATER == 6
PER_STRIPE_COL_LAND == 5
DEFAULT_EXTRA_STRIPE_COLS == 2

\* for (let i = 0; i < extraStripeCols; i++) MAX_PLANTS += step
AddPerStripeCol(maxPlants, extraStripeCols, step) ==
    IF extraStripeCols > 0 THEN maxPlants + extraStripeCols * step ELSE maxPlants

\* clone.stripeCol ? clone.stripeCol - 1 : 2   (absent and 0 are falsy)
extraStripeCols(c) ==
    IF Has(c, "stripeCol") /\ c.stripeCol # 0
    THEN c.stripeCol - 1
    ELSE DEFAULT_EXTRA_STRIPE_COLS

\* lfValue[3] === 2 (undefined when lfValue is shorter)
isWaterLevel(c) == Len(c.lfValue) >= 4 /\ c.lfValue[4] = 2

\* hasValidPlantCount with < for <= (the mutant of C12).
hasValidPlantCount_Strict(c) ==
    IF isWaterLevel(c)
    THEN Len(c.plants) < AddPerStripeCol(MAX_PLANTS_WATER, extraStripeCols(c), PER_STRIPE_COL_WATER)
    ELSE Len(c.plants) < AddPerStripeCol(MAX_PLANTS_LAND, extraStripeCols(c), PER_STRIPE_COL_LAND)

hasValidPlantCount(c) ==
    IF isWaterLevel(c)
    THEN Len(c.plants) <= AddPerStripeCol(MAX_PLANTS_WATER, extraStripeCols(c), PER_STRIPE_COL_WATER)
    ELSE Len(c.plants) <= AddPerStripeCol(MAX_PLANTS_LAND, extraStripeCols(c), PER_STRIPE_COL_LAND)

plantsThatCanBypassStripe == <<"oPumpkinHead", "oFlowerPot", "oLilyPad", "oILilyPad">>

\* noPlantsAfterStripe comparing plantCol itself, not plantCol + 1, with the
\* stripe (the mutant of C13).
noPlantsAfterStripe_ZeroBased(c) ==
    IF ~Has(c, "stripeCol") THEN TRUE
    ELSE \A i \in 1..Len(c.plants) :
            \/ Includes(plantsThatCanBypassStripe, c.plants[i].plantName)
            \/ ~(c.plants[i].plantCol > c.stripeCol)

noPlantsAfterStripe(c) ==
    IF ~Has(c, "stripeCol") THEN TRUE
    ELSE \A i \in 1..Len(c.plants) :
            \/ Includes(plantsThatCanBypassStripe, c.plants[i].plantName)
            \/ ~(c.plants[i].plantCol + 1 > c.stripeCol)

\* The loop of noDuplicatePlantTypesInTile from placement i, plantTypesByTile
\* being the sets of names seen so far per tile.
RECURSIVE noDupLoop(_, _, _)
noDupLoop(plants, i, plantTypesByTile) ==
    IF i > Len(plants) THEN TRUE
    ELSE LET k == tileKey(plants[i])
             seen == IF k \in DOMAIN plantTypesByTile THEN plantTypesByTile[k] ELSE {}
         IN  IF plants[i].plantName \in seen THEN FALSE
             ELSE noDupLoop(plants, i + 1,
                            [x \in DOMAIN plantTypesByTile \cup {k} |->
                                IF x = k THEN seen \cup {plants[i].plantName}
                                         ELSE plantTypesByTile[x]])

noDuplicatePlantTypesInTile(c) == noDupLoop(c.plants, 1, EmptyMap)

\* if (!clone.selectedZombies) return true: an absent list passes.
RECURSIVE noDupZombieLoop(_, _, _)
noDupZombieLoop(zs, i, zombieSet) ==
    IF i > Len(zs) THEN TRUE
    ELSE IF zs[i] \in zombieSet THEN FALSE
    ELSE noDupZombieLoop(zs, i + 1, zombieSet \cup {zs[i]})

noDuplicateZombies(c) ==
    IF ~Has(c, "selectedZombies") THEN TRUE
    ELSE noDupZombieLoop(c.selectedZombies, 1, {})

validPlants ==
    << "oPeashooter", "oSunFlower", "oWallNut", "oPotatoMine", "oSnowPea",
       "oChomper", "oRepeater", "oPuffShroom", "oFumeShroom", "oHypnoShroom",
       "oScaredyShroom", "oLilyPad", "oILilyPad", "oSquash", "oThreepeater",
       "oTangleKlep", "oSpikeweed", "oTorchwood", "oTallNut", "oSeaShroom",
       "oCactus", "oSplitPea", "oStarfruit", "oPumpkinHead", "oFlowerPot",
       "oGarlic", "oGatlingPea", "oGloomShroom", "oSpikerock" >>

noInvalidPlants(c) ==
    \A i \in 1..Len(c.plants) : Includes(validPlants, c.plants[i].plantName)

\* The enemy-type allow-list that validate.ts imports from levels_io.ts; the
\* revision of levels_io.ts at hand does not define it.
iZombies == {"oZombie", "oConeheadZombie", "oBucketheadZombie"}

noInvalidZombies(c) ==
    IF ~Has(c, "selectedZombies") THEN TRUE
    ELSE \A i \in 1..Len(c.selectedZombies) : c.selectedZombies[i] \in iZombies

\* [true] or [false, <first missing field>]
RECURSIVE firstMissing(_, _, _)
firstMissing(obj, fields, i) ==
    IF i > Len(fields) THEN <<TRUE>>
    ELSE IF ~Has(obj, fields[i]) THEN <<FALSE, fields[i]>>
    ELSE firstMissing(obj, fields, i + 1)

cloneHasAllRequiredFields(c) == firstMissing(c, requiredProperties, 1)

requiredPlantFields == <<"zIndex", "plantRow", "plantCol", "plantName">>

plantsHasAllRequiredFields(c) ==
    \A i \in 1..Len(c.plants) :
        \A j \in 1..Len(requiredPlantFields) : Has(c.plants[i], requiredPlantFields[j])

\* validateClone's return value: [true] is Ok, [false, reason] is Fail(reason).
\* The reason of the first check carries the missing field's name.
Ok == [ok |-> TRUE]
Fail(reason) == [ok |-> FALSE, reason |-> reason]
MissingFieldsReason(field) == <<"Clone is missing required fields: ", field>>

\* validateClone with the sun check moved behind the music check.
validateClone_SunAfterMusic(c) ==
    IF ~cloneHasAllRequiredFields(c)[1]
        THEN Fail(MissingFieldsReason(cloneHasAllRequiredFields(c)[2]))
    ELSE IF ~plantsHasAllRequiredFields(c) THEN Fail(<<"Plants are missing required fields.">>)
    ELSE IF ~max3PlantsIn1Tile(c) THEN Fail(<<"Too many plants in one tile.">>)
    ELSE IF ~maxLfLength7(c) THEN Fail(<<"LF value length exceeds 7.">>)
    ELSE IF ~validMusic(c) THEN Fail(<<"Invalid music track.">>)
    ELSE IF ~maxSun9990(c) THEN Fail(<<"Sun value exceeds 9990.">>)
    ELSE IF ~validStripeCol(c) THEN Fail(<<"Invalid stripe column.">>)
    ELSE IF ~hasValidPlantCount(c) THEN Fail(<<"Too many plants in the clone.">>)
    ELSE IF ~noPlantsAfterStripe(c) THEN Fail(<<"Plants are placed after the stripe column.">>)
    ELSE IF ~noDuplicatePlantTypesInTile(c) THEN Fail(<<"Duplicate plant types in the same tile.">>)
    ELSE IF ~noDuplicateZombies(c) THEN Fail(<<"Duplicate zombies in selected zombies.">>)
    ELSE IF ~noInvalidPlants(c) THEN Fail(<<"Clone contains invalid plants.">>)
    ELSE IF ~noInvalidZombies(c) THEN Fail(<<"Clone contains invalid zombies.">>)
    ELSE IF ~hasAllRequiredProperties(c) THEN Fail(<<"Clone is missing some required properties.">>)
    ELSE Ok

\* validateClone without the duplicate-plant-type check.
validateClone_NoDuplicateCheck(c) ==
    IF ~cloneHasAllRequiredFields(c)[1]
        THEN Fail(MissingFieldsReason(cloneHasAllRequiredFields(c)[2]))
    ELSE IF ~plantsHasAllRequiredFields(c) THEN Fail(<<"Plants are missing required fields.">>)
    ELSE IF ~max3PlantsIn1Tile(c) THEN Fail(<<"Too many plants in one tile.">>)
    ELSE IF ~maxLfLength7(c) THEN Fail(<<"LF value length exceeds 7.">>)
    ELSE IF ~maxSun9990(c) THEN Fail(<<"Sun value exceeds 9990.">>)
    ELSE IF ~validMusic(c) THEN Fail(<<"Invalid music track.">>)
    ELSE IF ~validStripeCol(c) THEN Fail(<<"Invalid stripe column.">>)
    ELSE IF ~hasValidPlantCount(c) THEN Fail(<<"Too many plants in the clone.">>)
    ELSE IF ~noPlantsAfterStripe(c) THEN Fail(<<"Plants are placed after the stripe column.">>)
    ELSE IF ~noDuplicateZombies(c) THEN Fail(<<"Duplicate zombies in selected zombies.">>)
    ELSE IF ~noInvalidPlants(c) THEN Fail(<<"Clone contains invalid plants.">>)
    ELSE IF ~noInvalidZombies(c) THEN Fail(<<"Clone contains invalid zombies.">>)
    ELSE IF ~hasAllRequiredProperties(c) THEN Fail(<<"Clone is missing some required properties.">>)
    ELSE Ok

\* validateClone throwing, as the loops over clone.plants and the read of
\* clone.lfValue.length would, where it returns the missing-fields reason
\* (the mutant of C15).
validateClone_ThrowsOnMissingField(c) ==
    IF ~cloneHasAllRequiredFields(c)[1] THEN Threw("TypeError", <<>>)
    ELSE IF ~plantsHasAllRequiredFields(c) THEN Fail(<<"Plants are missing required fields.">>)
    ELSE IF ~max3PlantsIn1Tile(c) THEN Fail(<<"Too many plants in one tile.">>)
    ELSE IF ~maxLfLength7(c) THEN Fail(<<"LF value length exceeds 7.">>)
    ELSE IF ~maxSun9990(c) THEN Fail(<<"Sun value exceeds 9990.">>)
    ELSE IF ~validMusic(c) THEN Fail(<<"Invalid music track.">>)
    ELSE IF ~validStripeCol(c) THEN Fail(<<"Invalid stripe column.">>)
    ELSE IF ~hasValidPlantCount(c) THEN Fail(<<"Too many plants in the clone.">>)
    ELSE IF ~noPlantsAfterStripe(c) THEN Fail(<<"Plants are placed after the stripe column.">>)
    ELSE IF ~noDuplicatePlantTypesInTile(c) THEN Fail(<<"Duplicate plant types in the same tile.">>)
    ELSE IF ~noDuplicateZombies(c) THEN Fail(<<"Duplicate zombies in selected zombies.">>)
    ELSE IF ~noInvalidPlants(c) THEN Fail(<<"Clone contains invalid plants.">>)
    ELSE IF ~noInvalidZombies(c) THEN Fail(<<"Clone contains invalid zombies.">>)
    ELSE IF ~hasAllRequiredProperties(c) THEN Fail(<<"Clone is missing some required properties.">>)
    ELSE Ok

validateClone(c) ==
    IF ~cloneHasAllRequiredFields(c)[1]
        THEN Fail(MissingFieldsReason(cloneHasAllRequiredFields(c)[2]))
    ELSE IF ~plantsHasAllRequiredFields(c) THEN Fail(<<"Plants are missing required fields.">>)
    ELSE IF ~max3PlantsIn1Tile(c) THEN Fail(<<"Too many plants in one tile.">>)
    ELSE IF ~maxLfLength7(c) THEN Fail(<<"LF value length exceeds 7.">>)
    ELSE IF ~maxSun9990(c) THEN Fail(<<"Sun value exceeds 9990.">>)
    ELSE IF ~validMusic(c) THEN Fail(<<"Invalid music track.">>)
    ELSE IF ~validStripeCol(c) THEN Fail(<<"Invalid stripe column.">>)
    ELSE IF ~hasValidPlantCount(c) THEN Fail(<<"Too many plants in the clone.">>)
    ELSE IF ~noPlantsAfterStripe(c) THEN Fail(<<"Plants are placed after the stripe column.">>)
    ELSE IF ~noDuplicatePlantTypesInTile(c) THEN Fail(<<"Duplicate plant types in the same tile.">>)
    ELSE IF ~noDuplicateZombies(c) THEN Fail(<<"Duplicate zombies in selected zombies.">>)
    ELSE IF ~noInvalidPlants(c) THEN Fail(<<"Clone contains invalid plants.">>)
    ELSE IF ~noInvalidZombies(c) THEN Fail(<<"Clone contains invalid zombies.">>)
    ELSE IF ~hasAllRequiredProperties(c) THEN Fail(<<"Clone is missing some required properties.">>)
    ELSE Ok

(***************************************************************************)
(* SpecValidate: a Clone is drawn and validateClone is applied to it.      *)
(*                                                                         *)
(* The Clones drawn: every combination of a few values per top-level field *)
(* (each rule's limit and a value beyond it) with every placement list of  *)
(* at most MaxPlants placements of the kinds below and with the placement  *)
(* lists around the capacity of rule 8; the lists of at most 2 placements  *)
(* also with every choice of selectedZombies; and the Clones lacking       *)
(* fields.                                                                 *)
(***************************************************************************)
MaxPlants == 4

Placement(name, row, col) ==
    [plantName |-> JSStr(name), plantRow |-> row, plantCol |-> col, zIndex |-> 1]

\* Placement without its zIndex (rule 2).
PlacementNoZIndex(name, row, col) ==
    [plantName |-> JSStr(name), plantRow |-> row, plantCol |-> col]

PlacementKinds ==
    { Placement("oPeashooter", 0, 0),      \* allowed, before the stripe
      Placement("oPumpkinHead", 0, 0),     \* allowed, bypasses the stripe
      Placement("oFlowerPot", 0, 0),
      Placement("oCherryBomb", 0, 0),      \* decodable, not publishable
      Placement("oPeashooter", 0, 9),      \* beyond every stripe column
      Placement("oPumpkinHead", 0, 9),
      PlacementNoZIndex("oPeashooter", 0, 0) }

SmallPlantLists == UNION {[1..n -> PlacementKinds] : n \in 0..MaxPlants}

\* The placement lists that are combined with every choice of selectedZombies.
ShortPlantLists == UNION {[1..n -> PlacementKinds] : n \in 0..2}

\* n placements, three of distinct allowed names per cell of column 0.
FillNames == <<"oPeashooter", "oPumpkinHead", "oFlowerPot">>
Fill(n) == [k \in 1..n |-> Placement(FillNames[((k - 1) % 3) + 1], (k - 1) \div 3, 0)]

\* The capacity of a non-water level with stripeCol = 3, and one more.
LandCapacityAt3 == MAX_PLANTS_LAND + (MIN_STRIPE_COL - 1) * PER_STRIPE_COL_LAND

BigPlantLists ==
    {Fill(n) \o tail : n \in {LandCapacityAt3 - 1, LandCapacityAt3, LandCapacityAt3 + 1},
                       tail \in {<<>>} \cup {<<p>> : p \in PlacementKinds}}

\* Levels filled to one below, exactly at, and one above the capacity of
\* their kind (land or water) at the lowest and the highest stripe column.
\* Their first placement lacks its zIndex, so that validateClone stops at its
\* second check; the placement-count rule is applied to them on its own.
LandLf == <<0, 0, 0, 0, 0, 0>>
WaterLf == <<0, 0, 0, 2, 0, 0>>
CapacityAt(sc, lf) ==
    IF lf = WaterLf
    THEN MAX_PLANTS_WATER + (sc - 1) * PER_STRIPE_COL_WATER
    ELSE MAX_PLANTS_LAND + (sc - 1) * PER_STRIPE_COL_LAND

CapacityClones ==
    { [name |-> "Test",
       plants |-> <<PlacementNoZIndex("oPeashooter", 0, 1)>> \o Fill(CapacityAt(sc, lf) + d - 1),
       sun |-> 100, music |-> "Cerebrawl", stripeCol |-> sc, lfValue |-> lf] :
          sc \in {MIN_STRIPE_COL, MAX_STRIPE_COL}, lf \in {LandLf, WaterLf},
          d \in {0 - 1, 0, 1} }

\* Small water levels.
WaterClones ==
    { [name |-> "Test", plants |-> pl, sun |-> 100, music |-> "Cerebrawl",
       stripeCol |-> MIN_STRIPE_COL, lfValue |-> WaterLf] :
          pl \in UNION {[1..n -> PlacementKinds] : n \in 0..1} }

\* Levels with stripeCol = 4 and one or two placements: each bypass plant and
\* two other plants, in the last column before the stripe (plantCol 3), the
\* first beyond it (plantCol 4) and far beyond it (plantCol 10).
StripePlacements ==
    { Placement(n, 0, col) :
          n \in {"oPumpkinHead", "oFlowerPot", "oLilyPad", "oILilyPad", "oPeashooter", "oSquash"},
          col \in {3, 4, 10} }

StripeClones ==
    { [name |-> "Test", plants |-> pl, sun |-> 100, music |-> "Cerebrawl",
       stripeCol |-> 4, lfValue |-> LandLf] :
          pl \in UNION {[1..n -> StripePlacements] : n \in 1..2} }

SunValues == {100, MAX_SUN + 1}
MusicValues == {"Cerebrawl", "Grasswalk"}
StripeColValues == {MIN_STRIPE_COL, MAX_STRIPE_COL + 1}
LfValues == {<<0, 0, 0, 0, 0, 0>>, <<0, 0, 0, 0, 0, 0, 0, 0>>}
ZombieLists ==
    {<<"oZombie", "oZombie">>, <<"oGargantuar">>, <<"oGargantuar", "oGargantuar">>}

\* A Clone with every required field, with or without selectedZombies.
FullClone(plants, sun, music, stripeCol, lf) ==
    [name |-> "Test", plants |-> plants, sun |-> sun, music |-> music,
     stripeCol |-> stripeCol, lfValue |-> lf]

WithZombies(c, zs) ==
    [f \in DOMAIN c \cup {"selectedZombies"} |->
        IF f = "selectedZombies" THEN zs ELSE c[f]]

Without(c, fields) == [f \in DOMAIN c \ fields |-> c[f]]

\* selectedZombies is optional: absent, or one of the lists.
ZombieChoices ==
    {[present |-> FALSE, list |-> <<>>]} \cup {[present |-> TRUE, list |-> zs] : zs \in ZombieLists}

CloneWith(plants, sun, music, stripeCol, lf, z) ==
    IF z.present
    THEN WithZombies(FullClone(plants, sun, music, stripeCol, lf), z.list)
    ELSE FullClone(plants, sun, music, stripeCol, lf)

\* Clones lacking one or two required fields.
MissingFieldSets ==
    {{requiredProperties[i]} : i \in 1..Len(requiredProperties)}
      \cup {{"sun", "stripeCol"}, {"lfValue", "music"}}

\* The spec's minimal valid level, the stripe on its own valid columns, a water
\* level, and [] as selectedZombies.
ValidScenarioClones ==
    { FullClone(<<Placement("oPeashooter", 0, 0)>>, 100, "Cerebrawl", 5, <<0, 0, 0, 0, 0, 0>>),
      FullClone(<<Placement("oPeashooter", 2, 3)>>, MAX_SUN, "Cerebrawl", 4, <<0, 0, 0, 2, 0, 0, 0>>),
      FullClone(<<Placement("oPeashooter", 2, 4)>>, MAX_SUN, "Cerebrawl", 4, <<0, 0, 0, 2, 0, 0, 0>>),
      WithZombies(FullClone(<<>>, 0, "Cerebrawl", MAX_STRIPE_COL, <<0, 0, 0, 0, 0, 0>>), <<>>),
      WithZombies(FullClone(<<>>, 0, "Cerebrawl", MAX_STRIPE_COL, <<0, 0, 0, 0, 0, 0>>), <<"oZombie">>) }

\* Levels with a placement lacking one of its fields, alone and after a
\* complete placement, and levels with a short lfValue (lfValue[3] absent).
PartialPlacementClones ==
    { [name |-> "Test", plants |-> before \o <<Without(Placement("oPeashooter", 0, 1), {f})>>,
       sun |-> 100, music |-> "Cerebrawl", stripeCol |-> 5, lfValue |-> lf] :
          f \in {"zIndex", "plantRow", "plantCol", "plantName"},
          before \in {<<>>, <<Placement("oSquash", 0, 0)>>},
          lf \in {LandLf, <<>>, <<0, 0>>} }

InitValidate ==
    /\ pc = "validate.start"
    /\ \E sun \in SunValues, mu \in MusicValues, sc \in StripeColValues, lf \in LfValues :
          \/ \E pl \in SmallPlantLists :
                clone = FullClone(pl, sun, mu, sc, lf)
          \/ \E pl \in ShortPlantLists, z \in ZombieChoices :
                clone = CloneWith(pl, sun, mu, sc, lf, z)
          \/ \E pl \in BigPlantLists :
                clone = FullClone(pl, sun, mu, sc, lf)
          \/ \E pl \in {<<>>, <<Placement("oPeashooter", 0, 9)>>}, m \in MissingFieldSets :
                clone = Without(FullClone(pl, sun, mu, sc, lf), m)
          \/ clone \in ValidScenarioClones
          \/ clone \in CapacityClones
          \/ clone \in WaterClones
          \/ clone \in StripeClones
          \/ clone \in PartialPlacementClones
    /\ validation = Unset
    /\ encoded = Unset /\ decoded = Unset
    /\ arr = Unset /\ packed = Unset /\ unpacked = Unset
    /\ buf = Unset /\ str = Unset /\ routed = Unset
    /\ admin_tokens = Unset /\ issued = Unset /\ through = Unset /\ last = Unset
    /\ levels = Unset /\ favorites = Unset /\ authors = Unset /\ files = Unset
    /\ uploadRateLimitByIp = Unset /\ downloadRateLimitByIp = Unset
    /\ favoriteRateLimitByIp = Unset /\ nowMs = Unset /\ res = Unset

Validate ==
    /\ pc = "validate.start"
    /\ validation' = validateClone(clone)
    /\ pc' = "validate.done"
    /\ UNCHANGED <<serverVars, tokenVars, packVars, codecVars, detectVars>>

NextValidate == Validate

SpecValidate == InitValidate /\ [][NextValidate]_vars

(***************************************************************************)
(* Bytes and strings                                                       *)
(*                                                                         *)
(* A byte buffer is raw bytes followed, or not, by one complete zlib       *)
(* stream (pako.deflate's output): [raw, z].  Of the stream the model      *)
(* knows the two header bytes (0x78, then 0xDA for level 9 and 0x9C for    *)
(* the default level), that it is at least 8 bytes long, and what it       *)
(* inflates to; no code modelled here reads a later byte of it.  What a    *)
(* stream holds is msgpack bytes of an object, Format-2 text or Format-1   *)
(* JSON text.  pako, msgpack, atob/btoa, TextDecoder and JSON are          *)
(* libraries: inflating a stream gives back what was deflated, and bytes   *)
(* that are no complete stream make pako.inflate either throw (a bad       *)
(* header) or return undefined (a truncated stream).  In place of a stream *)
(* a buffer may end in content that was not deflated: the msgpack bytes of *)
(* an object as they are, of which the model knows the first byte (the     *)
(* fixmap header, 0x80 + the number of keys).                              *)
(***************************************************************************)
NoContent == [fmt |-> "none", val |-> <<>>]
Undefined == [fmt |-> "undefined", val |-> <<>>]
MsgPack(obj) == [fmt |-> "msgpack", val |-> obj]
Izl2Text(c) == [fmt |-> "izl2text", val |-> c]
JsonText(c) == [fmt |-> "json", val |-> c]

NoStream == [level |-> 0, content |-> NoContent]
Stream(level, content) == [level |-> level, content |-> content]

\* Content that follows as it is, not deflated.
Plain(content) == [level |-> 0 - 1, content |-> content]

Bytes(raw, z) == [raw |-> raw, z |-> z]
HasStream(b) == b.z.level > 0
HasPlain(b) == b.z.level < 0

ZLIB_HEADER_BYTE == 120
ZLIB_LEVEL9_BYTE == 218
ZLIB_DEFAULT_BYTE == 156
MIN_STREAM_LENGTH == 8
UNKNOWN_BYTE == 0 - 1

\* bytes.length
ByteLength(b) ==
    Len(b.raw) + (IF HasStream(b) THEN MIN_STREAM_LENGTH
                  ELSE IF HasPlain(b) THEN 1
                  ELSE 0)

\* The first byte msgpack writes for an object of up to 15 keys.
FixMapHeader(obj) == 128 + Cardinality(DOMAIN obj)

\* bytes[i], i counted from 0; undefined (here UNKNOWN_BYTE) past the end.
ByteAt(b, i) ==
    IF i < Len(b.raw) THEN b.raw[i + 1]
    ELSE IF HasStream(b) /\ i = Len(b.raw) THEN ZLIB_HEADER_BYTE
    ELSE IF HasStream(b) /\ i = Len(b.raw) + 1
         THEN (IF b.z.level = 9 THEN ZLIB_LEVEL9_BYTE ELSE ZLIB_DEFAULT_BYTE)
    ELSE IF HasPlain(b) /\ i = Len(b.raw) /\ b.z.content.fmt = "msgpack"
         THEN FixMapHeader(b.z.content.val)
    ELSE UNKNOWN_BYTE

\* bytes.slice(n), for a cut inside the raw bytes.
SliceFrom(b, n) ==
    IF n >= Len(b.raw) THEN Bytes(<<>>, IF n = Len(b.raw) THEN b.z ELSE NoStream)
    ELSE Bytes(SubSeq(b.raw, n + 1, Len(b.raw)), b.z)

\* pako.inflate(bytes); lib is what pako does with bytes that are no stream.
Inflate(b, lib) ==
    IF b.raw = <<>> /\ HasStream(b) THEN Returned(b.z.content)
    ELSE IF lib = "throws" THEN Threw("pako.inflate", <<>>)
    ELSE Returned(Undefined)

\* pako.deflate(content, { level: 9 })
Deflate9(content) == Bytes(<<>>, Stream(9, content))

\* A string is characters followed, or not, by the base64 text of a buffer.
Str(chars, b64) == [chars |-> chars, b64 |-> b64]
NoBytes == Bytes(<<>>, NoStream)
HasB64(s) == s.b64 # NoBytes

\* The first two base64 characters of a zlib stream: "eN" at level 9 (78 DA),
\* "eJ" at the default level (78 9C).
Base64CharAt(b, i) ==
    IF i = 0 THEN "e" ELSE IF b.z.level = 9 THEN "N" ELSE "J"

\* str[i], i counted from 0, for i below 2 ("" stands for undefined and for
\* a base64 character the model does not know).
CharAt(s, i) ==
    IF i < Len(s.chars) THEN s.chars[i + 1]
    ELSE IF HasB64(s) /\ s.b64.raw = <<>> /\ HasStream(s.b64) /\ i - Len(s.chars) < 2
         THEN Base64CharAt(s.b64, i - Len(s.chars))
    ELSE ""

\* str.slice(1), for a string that starts with a character of chars.
SliceStr1(s) == Str(SubSeq(s.chars, 2, Len(s.chars)), s.b64)

Base64Alphabet == {"e", "J", "N", "A"}

\* atob(base64): throws on a character outside the base64 alphabet; the base64
\* text of a buffer decodes to the buffer; other text decodes to bytes that
\* are no stream.
base64ToBytes(s) ==
    IF \E i \in 1..Len(s.chars) : s.chars[i] \notin Base64Alphabet
    THEN Threw("InvalidCharacterError", <<>>)
    ELSE IF s.chars = <<>> THEN Returned(s.b64)
    ELSE Returned(Bytes(<<UNKNOWN_BYTE>>, NoStream))

\* btoa over the bytes.
bytesToBase64(b) == Str(<<>>, b)

(***************************************************************************)
(* Key-mapping table (levels_io.ts 47-69).  A JavaScript object's keys are *)
(* strings, also the numeric codes: result[1] is result["1"], and msgpack  *)
(* writes and reads them as strings.                                       *)
(***************************************************************************)
TINYIFIER_MAP ==
    [lfValue |-> "1", music |-> "2", name |-> "3", plants |-> "4",
     screenshot |-> "5", stripeCol |-> "6", sun |-> "7", plantCol |-> "8",
     plantName |-> "9", plantRow |-> "10", zIndex |-> "11", eleLeft |-> "12",
     eleTop |-> "13", eleWidth |-> "14", eleHeight |-> "15"]

\* TINYIFIER_MAP[key] ?? key
TinyKey(key) == IF key \in DOMAIN TINYIFIER_MAP THEN TINYIFIER_MAP[key] ELSE key

\* REVERSE_TINYIFIER_MAP[Number(key)] ?? key under a key table, for keys
\* that are field names or codes as the encoder writes them.
ReverseKeyIn(table, key) ==
    IF \E f \in DOMAIN table : table[f] = key
    THEN CHOOSE f \in DOMAIN table : table[f] = key
    ELSE key

ReverseKey(key) == ReverseKeyIn(TINYIFIER_MAP, key)

\* The keys of the object tinyifyKeys builds, and the key of obj each one
\* comes from (no two keys of the objects modelled map to the same key).
TinyKeys(obj) == {TinyKey(k) : k \in DOMAIN obj}
KeyOfTiny(obj, tiny) == CHOOSE k \in DOMAIN obj : TinyKey(k) = tiny

\* The same for reverseKeys.
ReversedKeys(table, obj) == {ReverseKeyIn(table, k) : k \in DOMAIN obj}
KeyOfReversed(table, obj, mapped) ==
    CHOOSE k \in DOMAIN obj : ReverseKeyIn(table, k) = mapped

\* allPlantsStringArray.indexOf(name), counted from 0; -1 when absent.
IndexOf(list, name) ==
    IF \E i \in 1..Len(list) : list[i] = name
    THEN (CHOOSE i \in 1..Len(list) : list[i] = name /\ \A j \in 1..(i - 1) : list[j] # name) - 1
    ELSE 0 - 1

(***************************************************************************)
(* Canonical encoder (levels_io.ts 160-187, 239-269)                       *)
(***************************************************************************)
\* tinyifyKeys on one placement.
tinyifyPlantValue(key, value) ==
    IF key = "plantName" /\ value.t = "string"
    THEN (IF IndexOf(allPlantsStringArray, value.v) # 0 - 1
          THEN JSNum(IndexOf(allPlantsStringArray, value.v))
          ELSE value)
    ELSE value

tinyifyPlant(plant) ==
    [tiny \in TinyKeys(plant) |->
        tinyifyPlantValue(KeyOfTiny(plant, tiny), plant[KeyOfTiny(plant, tiny)])]

\* tinyifyKeys on the value of one top-level key; packFromArray may throw.
tinyifyCloneValue(key, value) ==
    IF key = "lfValue" THEN JSNum(packFromArray(value).value)
    ELSE IF key = "plants" THEN [i \in 1..Len(value) |-> tinyifyPlant(value[i])]
    ELSE value

\* tinyifyKeys(levelData): Threw when packFromArray throws.
tinyifyKeys(c) ==
    IF "lfValue" \in DOMAIN c /\ packFromArray(c.lfValue).threw
    THEN packFromArray(c.lfValue)
    ELSE Returned([tiny \in TinyKeys(c) |->
                      tinyifyCloneValue(KeyOfTiny(c, tiny), c[KeyOfTiny(c, tiny)])])

encodeIZL3Payload(c) ==
    IF tinyifyKeys(c).threw THEN tinyifyKeys(c)
    ELSE Returned(Deflate9(MsgPack(tinyifyKeys(c).value)))

IZL3_HEADER == <<73, 90, 76, 51>>

\* The file form without the magic: the payload alone (the mutant of C17).
encodeIZL3File_NoMagic(c) == encodeIZL3Payload(c)

encodeIZL3File(c) ==
    IF encodeIZL3Payload(c).threw THEN encodeIZL3Payload(c)
    ELSE LET payload == encodeIZL3Payload(c).value
         IN  Returned(Bytes(IZL3_HEADER \o payload.raw, payload.z))

encodeIZL3String(c) ==
    IF encodeIZL3Payload(c).threw THEN encodeIZL3Payload(c)
    ELSE LET b64 == bytesToBase64(encodeIZL3Payload(c).value)
         IN  Returned(Str(<<"|">> \o b64.chars, b64.b64))

(***************************************************************************)
(* Format-3 decoder (levels_io.ts 189-237)                                 *)
(***************************************************************************)
\* The lookup counting the list from 1 (the mutant of C16).
PlantNameAt_OneBased(list, value) ==
    IF value.v \in 1..Len(list) THEN JSStr(list[value.v]) ELSE value

\* allPlantsStringArray[v] || v on a numeric plantName.
PlantNameAt(list, value) ==
    IF value.v \in 0..(Len(list) - 1) THEN JSStr(list[value.v + 1]) ELSE value

\* reverseKeys on a placement's value, by the key it is written under.
reversePlantValue(list, mapped, value) ==
    IF mapped = "plantName" /\ value.t = "number"
    THEN PlantNameAt(list, value)
    ELSE value

\* reverseKeys on one placement, for a key table and a name list.
reversePlant(table, list, plant) ==
    [mapped \in ReversedKeys(table, plant) |->
        reversePlantValue(list, mapped, plant[KeyOfReversed(table, plant, mapped)])]

\* reverseKeys on the decoded object: keys renamed, placements walked.
reverseKeysIn(table, list, obj) ==
    [mapped \in ReversedKeys(table, obj) |->
        IF mapped = "plants"
        THEN [i \in 1..Len(obj[KeyOfReversed(table, obj, mapped)]) |->
                 reversePlant(table, list, obj[KeyOfReversed(table, obj, mapped)][i])]
        ELSE obj[KeyOfReversed(table, obj, mapped)]]

reverseKeys(obj) == reverseKeysIn(TINYIFIER_MAP, allPlantsStringArray, obj)

\* msgpackDecode(bytes): throws on bytes that are not msgpack (undefined or
\* text).
msgpackDecode(content) ==
    IF content.fmt = "msgpack" THEN Returned(content.val)
    ELSE Threw("msgpackDecode", <<>>)

\* if (reversed.lfValue !== undefined && typeof reversed.lfValue === "number")
UnpackLfValue(reversed) ==
    IF "lfValue" \in DOMAIN reversed /\ reversed.lfValue.t = "number"
    THEN [reversed EXCEPT !.lfValue = unpackToArray(reversed.lfValue.v)]
    ELSE reversed

decodeIZL3Bytes(b, lib) ==
    IF Inflate(b, lib).threw THEN Inflate(b, lib)
    ELSE IF msgpackDecode(Inflate(b, lib).value).threw
         THEN msgpackDecode(Inflate(b, lib).value)
    ELSE Returned(UnpackLfValue(reverseKeys(msgpackDecode(Inflate(b, lib).value).value)))

(***************************************************************************)
(* Legacy decoders (levels_io.ts 271-334).  Format-2 text is kept as the   *)
(* sequence of its top-level pairs (the text split at \uE006).  A pair is  *)
(* its key text and its value text, the value in the three ways the        *)
(* parser's branches read it: whole (text), split at \uE000 (items), and   *)
(* split at \uE003 into the non-empty placement strings, each stripped of  *)
(* its markers and split at \uE002 into pairs of key text and value text   *)
(* (plants).  untinyifyClone_IZL2 parses the pairs of Format-2 text and     *)
(* gives an object without fields for any other text (no pair of it has a  *)
(* known key code); JSON.parse gives the Clone Format-1 JSON text is kept   *)
(* as and throws a SyntaxError for any other text, the empty text          *)
(* included.                                                               *)
(***************************************************************************)
EmptyText == [fmt |-> "text", val |-> <<>>]

Izl2Pair(k, text, items, plants) ==
    [k |-> k, text |-> text, items |-> items, plants |-> plants]

\* A placement's pair: key text and value text.
PlantPair(k, text) == [k |-> k, text |-> text]

\* The value of the decimal numerals among the texts modelled.
NumeralValue ==
    ("0" :> 0 @@ "1" :> 1 @@ "2" :> 2 @@ "3" :> 3 @@ "4" :> 4 @@ "5" :> 5 @@
     "40" :> 40 @@ "80" :> 80 @@ "100" :> 100 @@ "120" :> 120 @@ "9990" :> 9990)

\* The value of the numeral that starts a text which is not one.
NumeralPrefix == ("40px" :> 40 @@ "5th" :> 5)

JSNaN == [t |-> "NaN", v |-> 0]

\* parseInt(text, 10): the leading numeral's value, NaN without one.
parseInt(text) ==
    IF text \in DOMAIN NumeralValue THEN JSNum(NumeralValue[text])
    ELSE IF text \in DOMAIN NumeralPrefix THEN JSNum(NumeralPrefix[text])
    ELSE JSNaN

\* Number(text): the value of a numeral, 0 for the empty text, NaN otherwise.
ToNumber(text) ==
    IF text \in DOMAIN NumeralValue THEN JSNum(NumeralValue[text])
    ELSE IF text = "" THEN JSNum(0)
    ELSE JSNaN

\* REVERSE_TINYIFIER_MAP[Number(key)] is defined, for key texts that are
\* numerals as the table writes them or no numerals at all.
HasCode(table, key) == \E f \in DOMAIN table : table[f] = key

\* The fields the pairs give under a key table, and the last pair giving a
\* field (a later assignment overwrites an earlier one).
DecodedFields(table, pairs) ==
    { ReverseKeyIn(table, pairs[i].k) : i \in {j \in 1..Len(pairs) : HasCode(table, pairs[j].k)} }

LastPairOf(table, pairs, field) ==
    pairs[CHOOSE i \in 1..Len(pairs) :
              /\ HasCode(table, pairs[i].k) /\ ReverseKeyIn(table, pairs[i].k) = field
              /\ \A j \in (i + 1)..Len(pairs) :
                    ~(HasCode(table, pairs[j].k) /\ ReverseKeyIn(table, pairs[j].k) = field)]

\* The loop over one placement's pairs.
untinyifyPlant_IZL2(plantData) ==
    [f \in DecodedFields(TINYIFIER_MAP, plantData) |->
        IF f \in {"zIndex", "plantRow", "plantCol"}
        THEN parseInt(LastPairOf(TINYIFIER_MAP, plantData, f).text)
        ELSE JSStr(LastPairOf(TINYIFIER_MAP, plantData, f).text)]

\* The value stored for one top-level pair, by the field its key names.
untinyifyValue_IZL2(field, pair) ==
    IF field = "plants"
    THEN [i \in 1..Len(pair.plants) |-> untinyifyPlant_IZL2(pair.plants[i])]
    ELSE IF field = "lfValue"
    THEN [i \in 1..Len(pair.items) |-> ToNumber(pair.items[i])]
    ELSE IF field \in {"sun", "stripeCol"} THEN parseInt(pair.text)
    ELSE JSStr(pair.text)

\* new TextDecoder().decode(bytes); undefined decodes to the empty text.
TextDecode(content) == IF content = Undefined THEN EmptyText ELSE content

untinyifyClone_IZL2(text) ==
    IF text.fmt = "izl2text"
    THEN Returned([f \in DecodedFields(TINYIFIER_MAP, text.val) |->
                      untinyifyValue_IZL2(f, LastPairOf(TINYIFIER_MAP, text.val, f))])
    ELSE Returned(EmptyMap)

decodeIZL2Bytes(b, lib) ==
    IF Inflate(b, lib).threw THEN Inflate(b, lib)
    ELSE untinyifyClone_IZL2(TextDecode(Inflate(b, lib).value))

\* JSON.parse(data[0])
JSONParse(text) ==
    IF text.fmt = "json" THEN Returned(text.val) ELSE Threw("SyntaxError", <<>>)

decodeIZLBytes(b, lib) ==
    IF Inflate(b, lib).threw THEN Inflate(b, lib)
    ELSE JSONParse(TextDecode(Inflate(b, lib).value))

(***************************************************************************)
(* Entry points of levels_io.ts (343-403).  An entry point's outcome is    *)
(* kept with the decoder it chose: [path, result].                         *)
(***************************************************************************)
Via(path, result) == [path |-> path, result |-> result]

stringToBytesIZL3(s) == IF CharAt(s, 0) = "|" THEN SliceStr1(s) ELSE s
stringToBytesIZL2(s) == IF CharAt(s, 0) = "=" THEN SliceStr1(s) ELSE s
stringToBytesIZL(s) == s

HasMagic(b) ==
    /\ ByteLength(b) >= 4
    /\ \A i \in 0..3 : ByteAt(b, i) = IZL3_HEADER[i + 1]

detectFileVersion(b) ==
    IF HasMagic(b) THEN 3
    ELSE IF ByteLength(b) >= 2 /\ ByteAt(b, 0) = ZLIB_HEADER_BYTE THEN 2
    ELSE 1

detectStringVersion_SemicolonFirst(s) ==
    IF \E i \in 1..Len(s.chars) : s.chars[i] = ";" THEN 1
    ELSE IF CharAt(s, 0) = "|" THEN 3
    ELSE IF CharAt(s, 0) = "=" THEN 2
    ELSE 1

detectStringVersion(s) ==
    IF CharAt(s, 0) = "|" THEN 3
    ELSE IF CharAt(s, 0) = "=" THEN 2
    ELSE 1

decodeBytes(b, lib) ==
    IF detectFileVersion(b) = 3
    THEN Via("Format3", decodeIZL3Bytes(SliceFrom(b, 4), lib))
    ELSE IF detectFileVersion(b) = 2
    THEN Via("Format2", decodeIZL2Bytes(b, lib))
    ELSE Via("Format1", decodeIZLBytes(b, lib))

\* atob runs, and may throw, before the decoder is called.
decodeString(s, lib) ==
    IF detectStringVersion(s) = 3
    THEN Via("Format3",
             IF base64ToBytes(stringToBytesIZL3(s)).threw
             THEN base64ToBytes(stringToBytesIZL3(s))
             ELSE decodeIZL3Bytes(base64ToBytes(stringToBytesIZL3(s)).value, lib))
    ELSE IF detectStringVersion(s) = 2
    THEN Via("Format2",
             IF base64ToBytes(stringToBytesIZL2(s)).threw
             THEN base64ToBytes(stringToBytesIZL2(s))
             ELSE decodeIZL2Bytes(base64ToBytes(stringToBytesIZL2(s)).value, lib))
    ELSE Via("Format1",
             IF base64ToBytes(stringToBytesIZL(s)).threw
             THEN base64ToBytes(stringToBytesIZL(s))
             ELSE decodeIZLBytes(base64ToBytes(stringToBytesIZL(s)).value, lib))

decodeFile(b, lib) == decodeBytes(b, lib)

(***************************************************************************)
(* The decoder of decode.ts: its own key table (codes 1-13), its own name  *)
(* list, a byte entry point decodeFile (here decodeFile_decodeTs, the name *)
(* decodeFile being levels_io.ts's) and a string entry point               *)
(* decodeLevelData.                                                        *)
(***************************************************************************)
TINYIFIER_MAP_decodeTs ==
    [lfValue |-> "1", music |-> "2", name |-> "3", plants |-> "4",
     screenshot |-> "5", stripeCol |-> "6", sun |-> "7", plantCol |-> "8",
     plantName |-> "9", plantRow |-> "10", zIndex |-> "11", eleLeft |-> "12",
     eleTop |-> "13"]

allPlantsStringArray_decodeTs ==
    <<"oPeashooter", "oSunFlower", "oCherryBomb", "oWallNut",
      "oPotatoMine", "oSnowPea", "oChomper", "oRepeater",
      "oPuffShroom", "oSunShroom", "oFumeShroom", "oGraveBuster",
      "oHypnoShroom", "oScaredyShroom", "oIceShroom", "oDoomShroom",
      "oLilyPad", "oSquash", "oThreepeater", "oTangleKlep",
      "oJalapeno", "oSpikeweed", "oTorchwood", "oTallNut",
      "oCactus", "oPlantern", "oSplitPea", "oStarfruit",
      "oPumpkinHead", "oFlowerPot", "oCoffeeBean", "oGarlic",
      "oSeaShroom", "oOxygen", "ostar", "oTTS",
      "oGun", "oSeaAnemone", "oGatlingPea", "oGloomShroom",
      "oTwinSunflower", "oSpikerock", "oTenManNut", "oSnowRepeater",
      "oCattail", "oLotusRoot", "oIceFumeShroom", "oLaserBean",
      "oBigChomper", "oFlamesMushroom", "oBalloon">>

reverseKeys_decodeTs(obj) ==
    reverseKeysIn(TINYIFIER_MAP_decodeTs, allPlantsStringArray_decodeTs, obj)

\* atob, pako.inflate, TextDecoder
decompressString(base64, lib) ==
    IF base64ToBytes(base64).threw THEN base64ToBytes(base64)
    ELSE IF Inflate(base64ToBytes(base64).value, lib).threw
         THEN Inflate(base64ToBytes(base64).value, lib)
    ELSE Returned(TextDecode(Inflate(base64ToBytes(base64).value, lib).value))

\* deflate at level 9, btoa, padding removed
compressString(text) == Str(<<>>, Deflate9(text))

\* atob, pako.inflate
decompressStringToBytes(base64, lib) ==
    IF base64ToBytes(base64).threw THEN base64ToBytes(base64)
    ELSE Inflate(base64ToBytes(base64).value, lib)

\* pako.inflate, TextDecoder
decompressStringFromBytes(b, lib) ==
    IF Inflate(b, lib).threw THEN Inflate(b, lib)
    ELSE Returned(TextDecode(Inflate(b, lib).value))

untinyifyClone(content) ==
    IF msgpackDecode(content).threw THEN msgpackDecode(content)
    ELSE Returned(UnpackLfValue(reverseKeys_decodeTs(msgpackDecode(content).value)))

\* The loop over one placement's pairs in untinyifyClone_OLD: five fields
\* are parsed as integers, plantName is kept, any other field is not stored.
untinyifyPlant_OLD(plantData) ==
    [f \in DecodedFields(TINYIFIER_MAP_decodeTs, plantData)
             \cap {"zIndex", "plantRow", "plantCol", "eleLeft", "eleTop", "plantName"} |->
        IF f = "plantName"
        THEN JSStr(LastPairOf(TINYIFIER_MAP_decodeTs, plantData, f).text)
        ELSE parseInt(LastPairOf(TINYIFIER_MAP_decodeTs, plantData, f).text)]

untinyifyValue_OLD(field, pair) ==
    IF field = "plants"
    THEN [i \in 1..Len(pair.plants) |-> untinyifyPlant_OLD(pair.plants[i])]
    ELSE IF field = "lfValue"
    THEN [i \in 1..Len(pair.items) |-> ToNumber(pair.items[i])]
    ELSE IF field \in {"sun", "stripeCol"} THEN parseInt(pair.text)
    ELSE JSStr(pair.text)

untinyifyClone_OLD(text) ==
    IF text.fmt = "izl2text"
    THEN Returned([f \in DecodedFields(TINYIFIER_MAP_decodeTs, text.val) |->
                      untinyifyValue_OLD(f, LastPairOf(TINYIFIER_MAP_decodeTs, text.val, f))])
    ELSE Returned(EmptyMap)

\* stringifiedData.includes(";"); base64 text holds no ";".
IncludesSemicolon(s) == \E i \in 1..Len(s.chars) : s.chars[i] = ";"

\* stringifiedData.split(";")[0]
BeforeSemicolon(s) ==
    IF IncludesSemicolon(s)
    THEN LET first == CHOOSE i \in 1..Len(s.chars) :
                          s.chars[i] = ";" /\ \A j \in 1..(i - 1) : s.chars[j] # ";"
         IN  Str(SubSeq(s.chars, 1, first - 1), NoBytes)
    ELSE s

\* stringifiedData.startsWith("eJ")
StartsWithEJ(s) == CharAt(s, 0) = "e" /\ CharAt(s, 1) = "J"

parseClone(s, lib) ==
    IF decompressString(BeforeSemicolon(s), lib).threw
    THEN decompressString(BeforeSemicolon(s), lib)
    ELSE JSONParse(decompressString(BeforeSemicolon(s), lib).value)

parseCloneTiny_OLD(s, lib) ==
    IF CharAt(s, 0) = "="
    THEN (IF decompressString(SliceStr1(s), lib).threw
          THEN decompressString(SliceStr1(s), lib)
          ELSE untinyifyClone_OLD(decompressString(SliceStr1(s), lib).value))
    ELSE Threw("Invalid data format", <<>>)

parseCloneTiny(s, lib) ==
    IF CharAt(s, 0) = "|"
    THEN (IF decompressStringToBytes(SliceStr1(s), lib).threw
          THEN decompressStringToBytes(SliceStr1(s), lib)
          ELSE untinyifyClone(decompressStringToBytes(SliceStr1(s), lib).value))
    ELSE IF CharAt(s, 0) = "="
    THEN (IF decompressString(SliceStr1(s), lib).threw
          THEN decompressString(SliceStr1(s), lib)
          ELSE untinyifyClone_OLD(decompressString(SliceStr1(s), lib).value))
    ELSE Threw("Invalid data format", <<>>)

DEFLATE_SECOND_BYTES == {156, 218, 1, 94}

decodeFile_decodeTs(b, lib) ==
    IF HasMagic(b)
    THEN Via("Format3", parseCloneTiny(Str(<<"|">>, SliceFrom(b, 4)), lib))
    ELSE IF /\ ByteLength(b) >= 2
            /\ ByteAt(b, 0) = ZLIB_HEADER_BYTE
            /\ ByteAt(b, 1) \in DEFLATE_SECOND_BYTES
    THEN Via("Format2",
             IF decompressStringFromBytes(b, lib).threw
             THEN decompressStringFromBytes(b, lib)
             ELSE parseCloneTiny_OLD(
                      Str(<<"=">>, compressString(decompressStringFromBytes(b, lib).value).b64),
                      lib))
    ELSE Via("Format2",
             IF decompressStringFromBytes(b, lib).threw
             THEN decompressStringFromBytes(b, lib)
             ELSE untinyifyClone_OLD(decompressStringFromBytes(b, lib).value))

decodeLevelData(s, lib) ==
    IF CharAt(s, 0) = "|" THEN Via("Format3", parseCloneTiny(s, lib))
    ELSE IF CharAt(s, 0) = "=" THEN Via("Format2", parseCloneTiny_OLD(s, lib))
    ELSE IF IncludesSemicolon(s) \/ StartsWithEJ(s) THEN Via("Format1", parseClone(s, lib))
    ELSE Via("none", Threw("Unknown level data format", <<>>))

(***************************************************************************)
(* SpecDetect: one byte buffer, given to one byte entry point.             *)
(* SpecString: one string, given to one string entry point.                *)
(***************************************************************************)
MaxBytes == 4
MaxTail == 2
MaxChars == 3

SeqsUpTo(S, n) == UNION {[1..k -> S] : k \in 0..n}

\* The magic's four bytes, the zlib header byte and a level byte; 90 and 73
\* also serve as bytes that are neither 0x78 nor a deflate second byte.
ByteAlphabet == {73, 90, 76, 51, 120, 218}

CharAlphabet == {"|", "=", ";", "e", "J", "-"}

\* The Format-2 text of a level of one placement.
SampleIzl2Pairs ==
    << Izl2Pair("3", "Test", <<"Test">>, <<>>),
       Izl2Pair("7", "100", <<"100">>, <<>>),
       Izl2Pair("4", "", <<>>,
                <<<<PlantPair("9", "oPeashooter"), PlantPair("10", "1"),
                    PlantPair("8", "1"), PlantPair("11", "1")>>>>),
       Izl2Pair("1", "", <<"0", "1", "1", "2", "1", "0">>, <<>>) >>

SampleClone ==
    FullClone(<<Placement("oPeashooter", 1, 1), Placement("oSpikerock", 2, 3)>>,
              100, "Cerebrawl", 5, <<0, 1, 1, 2, 1, 0>>)

\* No stream, or a well-formed one of each generation.
SampleStreams ==
    { NoStream,
      encodeIZL3Payload(SampleClone).value.z,
      Stream(9, Izl2Text(SampleIzl2Pairs)),
      Stream(6, JsonText(SampleClone)) }

\* What pako.inflate does with bytes that are no complete stream.
PakoOnGarbage == {"throws", "undefined"}

Entry(entry, via) == [entry |-> entry, path |-> via.path, result |-> via.result]

InitDetect ==
    /\ pc = "detect.start"
    /\ \E z \in SampleStreams :
          \/ \E raw \in SeqsUpTo(ByteAlphabet, MaxBytes) : buf = Bytes(raw, z)
          \/ \E tail \in SeqsUpTo(ByteAlphabet, MaxTail) : buf = Bytes(IZL3_HEADER \o tail, z)
    /\ str = Unset /\ routed = Unset
    /\ arr = Unset /\ packed = Unset /\ unpacked = Unset
    /\ clone = Unset /\ encoded = Unset /\ decoded = Unset
    /\ validation = Unset
    /\ admin_tokens = Unset /\ issued = Unset /\ through = Unset /\ last = Unset
    /\ levels = Unset /\ favorites = Unset /\ authors = Unset /\ files = Unset
    /\ uploadRateLimitByIp = Unset /\ downloadRateLimitByIp = Unset
    /\ favoriteRateLimitByIp = Unset /\ nowMs = Unset /\ res = Unset

DecodeBytes ==
    /\ pc = "detect.start"
    /\ \E lib \in PakoOnGarbage : routed' = Entry("decodeBytes", decodeBytes(buf, lib))
    /\ pc' = "detect.done"
    /\ UNCHANGED <<serverVars, tokenVars, buf, str, packVars, codecVars, validateVars>>

DecodeFile ==
    /\ pc = "detect.start"
    /\ \E lib \in PakoOnGarbage : routed' = Entry("decodeFile", decodeFile(buf, lib))
    /\ pc' = "detect.done"
    /\ UNCHANGED <<serverVars, tokenVars, buf, str, packVars, codecVars, validateVars>>

DecodeFile_decodeTs ==
    /\ pc = "detect.start"
    /\ \E lib \in PakoOnGarbage :
          routed' = Entry("decode.ts decodeFile", decodeFile_decodeTs(buf, lib))
    /\ pc' = "detect.done"
    /\ UNCHANGED <<serverVars, tokenVars, buf, str, packVars, codecVars, validateVars>>

NextDetect == DecodeBytes \/ DecodeFile \/ DecodeFile_decodeTs

SpecDetect == InitDetect /\ [][NextDetect]_vars

InitString ==
    /\ pc = "string.start"
    /\ \E chars \in SeqsUpTo(CharAlphabet, MaxChars), z \in SampleStreams :
          str = Str(chars, Bytes(<<>>, z))
    /\ buf = Unset /\ routed = Unset
    /\ arr = Unset /\ packed = Unset /\ unpacked = Unset
    /\ clone = Unset /\ encoded = Unset /\ decoded = Unset
    /\ validation = Unset
    /\ admin_tokens = Unset /\ issued = Unset /\ through = Unset /\ last = Unset
    /\ levels = Unset /\ favorites = Unset /\ authors = Unset /\ files = Unset
    /\ uploadRateLimitByIp = Unset /\ downloadRateLimitByIp = Unset
    /\ favoriteRateLimitByIp = Unset /\ nowMs = Unset /\ res = Unset

DecodeString ==
    /\ pc = "string.start"
    /\ \E lib \in PakoOnGarbage : routed' = Entry("decodeString", decodeString(str, lib))
    /\ pc' = "string.done"
    /\ UNCHANGED <<serverVars, tokenVars, buf, str, packVars, codecVars, validateVars>>

DecodeLevelData ==
    /\ pc = "string.start"
    /\ \E lib \in PakoOnGarbage : routed' = Entry("decodeLevelData", decodeLevelData(str, lib))
    /\ pc' = "string.done"
    /\ UNCHANGED <<serverVars, tokenVars, buf, str, packVars, codecVars, validateVars>>

NextString == DecodeString \/ DecodeLevelData

SpecString == InitString /\ [][NextString]_vars

(***************************************************************************)
(* SpecCodec: one Clone, encoded by the Format-3 encoder to a file or to a *)
(* string, and the encoder's output decoded by the matching entry point.   *)
(***************************************************************************)
MaxCodecPlants == 2

\* An lfValue of n elements, all 0 but element k (counted from 1), which is v.
LfWith(n, k, v) == [i \in 1..n |-> IF i = k THEN v ELSE 0]

\* Every length in the packer's contract and LenSlack beyond it on each side.
CodecLfValues ==
    { LfWith(n, k, v) : n \in (MIN_LF_LENGTH - LenSlack)..(MAX_LF_LENGTH + LenSlack),
                        k \in 1..MAX_LF_LENGTH,
                        v \in {1, MAX_LF_ELEMENT} }

\* First of the name list, last of it, and a name the list does not have.
CodecPlantNames == {"oPeashooter", "oFlamesMushroom", "oNewPlant"}

CodecPlacements ==
    { [plantName |-> JSStr(n), plantRow |-> r, plantCol |-> 2, zIndex |-> r + 1] :
          n \in CodecPlantNames, r \in {0, 4} }

CodecClone(plants, sun, lf) == FullClone(plants, sun, "Cerebrawl", 5, lf)

InitCodec ==
    /\ pc = "codec.start"
    /\ \E plants \in SeqsUpTo(CodecPlacements, MaxCodecPlants),
          sun \in {0, MAX_SUN},
          lf \in CodecLfValues :
          \/ clone = CodecClone(plants, sun, lf)
          \/ clone = WithZombies(CodecClone(plants, sun, lf), <<"oZombie">>)
    /\ encoded = Unset /\ decoded = Unset
    /\ arr = Unset /\ packed = Unset /\ unpacked = Unset
    /\ validation = Unset
    /\ buf = Unset /\ str = Unset /\ routed = Unset
    /\ admin_tokens = Unset /\ issued = Unset /\ through = Unset /\ last = Unset
    /\ levels = Unset /\ favorites = Unset /\ authors = Unset /\ files = Unset
    /\ uploadRateLimitByIp = Unset /\ downloadRateLimitByIp = Unset
    /\ favoriteRateLimitByIp = Unset /\ nowMs = Unset /\ res = Unset

EncodeFile ==
    /\ pc = "codec.start"
    /\ encoded' = encodeIZL3File(clone)
    /\ pc' = "codec.file"
    /\ UNCHANGED <<serverVars, tokenVars, clone, decoded, packVars, validateVars, detectVars>>

EncodeString ==
    /\ pc = "codec.start"
    /\ encoded' = encodeIZL3String(clone)
    /\ pc' = "codec.string"
    /\ UNCHANGED <<serverVars, tokenVars, clone, decoded, packVars, validateVars, detectVars>>

DecodeEncodedFile ==
    /\ pc = "codec.file"
    /\ ~encoded.threw
    /\ \E lib \in PakoOnGarbage : decoded' = decodeBytes(encoded.value, lib)
    /\ pc' = "codec.decoded"
    /\ UNCHANGED <<serverVars, tokenVars, clone, encoded, packVars, validateVars, detectVars>>

DecodeEncodedString ==
    /\ pc = "codec.string"
    /\ ~encoded.threw
    /\ \E lib \in PakoOnGarbage : decoded' = decodeString(encoded.value, lib)
    /\ pc' = "codec.decoded"
    /\ UNCHANGED <<serverVars, tokenVars, clone, encoded, packVars, validateVars, detectVars>>

NextCodec == EncodeFile \/ EncodeString \/ DecodeEncodedFile \/ DecodeEncodedString

SpecCodec == InitCodec /\ [][NextCodec]_vars

(***************************************************************************)
(* SpecPlainBody: one Clone written as Format 3, file or string, with the  *)
(* msgpack body deflated or left as it is, and given to one entry point.   *)
(***************************************************************************)
\* The msgpack bytes of the Clone's key-mapped object.
PlainBody(c) == Plain(MsgPack(tinyifyKeys(c).value))
DeflatedBody(c) == encodeIZL3Payload(c).value.z

InitPlainBody ==
    /\ \E plants \in SeqsUpTo(CodecPlacements, MaxCodecPlants) :
          /\ clone = CodecClone(plants, 100, LandLf)
          /\ \E body \in {PlainBody(clone), DeflatedBody(clone)} :
                \/ pc = "detect.start" /\ buf = Bytes(IZL3_HEADER, body) /\ str = Unset
                \/ pc = "string.start" /\ str = Str(<<"|">>, Bytes(<<>>, body)) /\ buf = Unset
    /\ routed = Unset
    /\ encoded = Unset /\ decoded = Unset
    /\ arr = Unset /\ packed = Unset /\ unpacked = Unset
    /\ validation = Unset
    /\ admin_tokens = Unset /\ issued = Unset /\ through = Unset /\ last = Unset
    /\ levels = Unset /\ favorites = Unset /\ authors = Unset /\ files = Unset
    /\ uploadRateLimitByIp = Unset /\ downloadRateLimitByIp = Unset
    /\ favoriteRateLimitByIp = Unset /\ nowMs = Unset /\ res = Unset

NextPlainBody ==
    DecodeBytes \/ DecodeFile \/ DecodeFile_decodeTs \/ DecodeString \/ DecodeLevelData

SpecPlainBody == InitPlainBody /\ [][NextPlainBody]_vars

(***************************************************************************)
(* SpecFormat2: one Format-2 text, deflated, as a file or as a string      *)
(* after "=", given to one entry point.                                    *)
(***************************************************************************)
MaxFormat2Plants == 1

LayoutHints == <<"eleLeft", "eleTop", "eleWidth", "eleHeight">>
HintTexts == [eleLeft |-> "120", eleTop |-> "80", eleWidth |-> "40", eleHeight |-> "40px"]

\* The pairs of a placement: the four required fields, then the hints of hs.
Format2Placement(name, row, hs) ==
    LET sel == SelectSeq(LayoutHints, LAMBDA f : f \in hs)
    IN  <<PlantPair("9", name), PlantPair("10", row), PlantPair("8", "2"),
          PlantPair("11", "1")>>
        \o [i \in 1..Len(sel) |-> PlantPair(TINYIFIER_MAP[sel[i]], HintTexts[sel[i]])]

\* A name or a numeral as plantName, the first or the last row, any hints.
Format2Placements ==
    { Format2Placement(name, row, hs) :
          name \in {"oPeashooter", "0"}, row \in {"0", "4"},
          hs \in SUBSET {"eleLeft", "eleTop", "eleWidth", "eleHeight"} }

\* Nothing more, a screenshot, or a pair whose key is no code of the table.
Format2Extras ==
    { <<>>,
      <<Izl2Pair("5", "abc", <<"abc">>, <<>>)>>,
      <<Izl2Pair("99", "abc", <<"abc">>, <<>>)>> }

Format2Pairs(plants, sun, extra) ==
    << Izl2Pair("3", "Test", <<"Test">>, <<>>),
       Izl2Pair("2", "Cerebrawl", <<"Cerebrawl">>, <<>>),
       Izl2Pair("7", sun, <<sun>>, <<>>),
       Izl2Pair("6", "5", <<"5">>, <<>>),
       Izl2Pair("1", "", <<"0", "0", "0", "2", "0", "0">>, <<>>),
       Izl2Pair("4", "", <<>>, plants) >> \o extra

InitFormat2 ==
    /\ \E plants \in SeqsUpTo(Format2Placements, MaxFormat2Plants),
          sun \in {"100", "9990"},
          extra \in Format2Extras :
          LET body == Stream(9, Izl2Text(Format2Pairs(plants, sun, extra)))
          IN  \/ pc = "detect.start" /\ buf = Bytes(<<>>, body) /\ str = Unset
              \/ pc = "string.start" /\ str = Str(<<"=">>, Bytes(<<>>, body)) /\ buf = Unset
    /\ routed = Unset
    /\ clone = Unset /\ encoded = Unset /\ decoded = Unset
    /\ arr = Unset /\ packed = Unset /\ unpacked = Unset
    /\ validation = Unset
    /\ admin_tokens = Unset /\ issued = Unset /\ through = Unset /\ last = Unset
    /\ levels = Unset /\ favorites = Unset /\ authors = Unset /\ files = Unset
    /\ uploadRateLimitByIp = Unset /\ downloadRateLimitByIp = Unset
    /\ favoriteRateLimitByIp = Unset /\ nowMs = Unset /\ res = Unset

NextFormat2 ==
    DecodeBytes \/ DecodeFile \/ DecodeFile_decodeTs \/ DecodeString \/ DecodeLevelData

SpecFormat2 == InitFormat2 /\ [][NextFormat2]_vars

(***************************************************************************)
(* SpecPlantName: one plantName value, a number or a string, in a level    *)
(* of one placement: the level as a Clone is given to tinyifyKeys, and the *)
(* level as Format 3 writes it, with the value as its plantName, is given  *)
(* to decodeIZL3Bytes.                                                     *)
(***************************************************************************)
PlantIndexSlack == 2

\* Every index of the list and PlantIndexSlack beyond it on each side; every
\* name of the list, a name it does not have and a string of digits.
NumericPlantNames ==
    { JSNum(n) : n \in (0 - PlantIndexSlack)..(Len(allPlantsStringArray) - 1 + PlantIndexSlack) }

StringPlantNames ==
    { JSStr(allPlantsStringArray[i]) : i \in 1..Len(allPlantsStringArray) }
    \cup { JSStr("oNewPlant"), JSStr("7") }

PlantNameClone(v) ==
    FullClone(<<[plantName |-> v, plantRow |-> 1, plantCol |-> 2, zIndex |-> 3]>>,
              100, "Cerebrawl", 5, LandLf)

\* The object Format 3 holds for the level, its placement's plantName (key
\* "9" of the first element of key "4") written as v.
WrittenLevel(v) ==
    LET tiny == tinyifyKeys(PlantNameClone(JSStr("oNewPlant"))).value
    IN  [tiny EXCEPT !["4"] = <<[tiny["4"][1] EXCEPT !["9"] = v]>>]

InitPlantName ==
    /\ pc = "plantName.start"
    /\ \/ \E v \in NumericPlantNames :
             clone = PlantNameClone(v) /\ buf = Deflate9(MsgPack(WrittenLevel(v)))
       \/ \E v \in StringPlantNames :
             clone = PlantNameClone(v) /\ buf = Deflate9(MsgPack(WrittenLevel(v)))
    /\ encoded = Unset /\ decoded = Unset
    /\ str = Unset /\ routed = Unset
    /\ arr = Unset /\ packed = Unset /\ unpacked = Unset
    /\ validation = Unset
    /\ admin_tokens = Unset /\ issued = Unset /\ through = Unset /\ last = Unset
    /\ levels = Unset /\ favorites = Unset /\ authors = Unset /\ files = Unset
    /\ uploadRateLimitByIp = Unset /\ downloadRateLimitByIp = Unset
    /\ favoriteRateLimitByIp = Unset /\ nowMs = Unset /\ res = Unset

TinyifyPlantName ==
    /\ pc = "plantName.start"
    /\ encoded' = tinyifyKeys(clone)
    /\ pc' = "plantName.tinyified"
    /\ UNCHANGED <<serverVars, tokenVars, clone, decoded, buf, str, routed, packVars, validateVars>>

DecodePlantName ==
    /\ pc = "plantName.start"
    /\ \E lib \in PakoOnGarbage : decoded' = decodeIZL3Bytes(buf, lib)
    /\ pc' = "plantName.decoded"
    /\ UNCHANGED <<serverVars, tokenVars, clone, encoded, buf, str, routed, packVars, validateVars>>

NextPlantName == TinyifyPlantName \/ DecodePlantName

SpecPlantName == InitPlantName /\ [][NextPlantName]_vars

(***************************************************************************)
(* SpecPublish: one Clone is validated and, when validateClone accepted    *)
(* it, encoded by the Format-3 encoder.                                    *)
(***************************************************************************)
\* lfValues of every length from 0 to LenSlack past the packer's longest, all
\* 0 but one element, which goes ValSlack past the packer's range.
PublishLfValues ==
    { LfWith(n, k, v) : n \in 0..(MAX_LF_LENGTH + LenSlack),
                        k \in 1..MAX_LF_LENGTH,
                        v \in {0 - ValSlack, 0, 2, MAX_LF_ELEMENT, MAX_LF_ELEMENT + ValSlack} }

InitPublish ==
    /\ pc = "validate.start"
    /\ \E lf \in PublishLfValues,
          pl \in {<<>>, <<Placement("oPeashooter", 0, 0)>>, <<Placement("oCherryBomb", 0, 0)>>} :
          clone = FullClone(pl, 100, "Cerebrawl", 5, lf)
    /\ validation = Unset
    /\ encoded = Unset /\ decoded = Unset
    /\ arr = Unset /\ packed = Unset /\ unpacked = Unset
    /\ buf = Unset /\ str = Unset /\ routed = Unset
    /\ admin_tokens = Unset /\ issued = Unset /\ through = Unset /\ last = Unset
    /\ levels = Unset /\ favorites = Unset /\ authors = Unset /\ files = Unset
    /\ uploadRateLimitByIp = Unset /\ downloadRateLimitByIp = Unset
    /\ favoriteRateLimitByIp = Unset /\ nowMs = Unset /\ res = Unset

EncodeValidatedFile ==
    /\ pc = "validate.done"
    /\ validation.ok
    /\ encoded' = encodeIZL3File(clone)
    /\ pc' = "publish.file"
    /\ UNCHANGED <<serverVars, tokenVars, clone, decoded, validation, packVars, detectVars>>

EncodeValidatedString ==
    /\ pc = "validate.done"
    /\ validation.ok
    /\ encoded' = encodeIZL3String(clone)
    /\ pc' = "publish.string"
    /\ UNCHANGED <<serverVars, tokenVars, clone, decoded, validation, packVars, detectVars>>

NextPublish == Validate \/ EncodeValidatedFile \/ EncodeValidatedString

SpecPublish == InitPublish /\ [][NextPublish]_vars

(***************************************************************************)
(* One-time admin tokens (db.ts 219-247, auth.ts 127-152, routes/admin.ts  *)
(* 69-91, 93, 204-211, 370).  Table admin_tokens is the set of its rows;   *)
(* token is its primary key.  generateOneTimeToken draws 24 random bytes:  *)
(* a token drawn is one never drawn before, so the INSERT meets no UNIQUE  *)
(* error and the retry loop ends at its first attempt.                     *)
(***************************************************************************)
Row(token, levelId) == [token |-> token, level_id |-> levelId]

\* INSERT INTO admin_tokens (token, level_id, created_at)
createOneTimeTokenForLevel(table, token, levelId) == table \cup {Row(token, levelId)}

\* DELETE ... WHERE token = ?, whatever the level (the mutant of C20).
consumeOneTimeTokenForLevel_AnyLevel(table, token, levelId) ==
    [table |-> {r \in table : r.token # token},
     consumed |-> \E r \in table : r.token = token]

\* DELETE FROM admin_tokens WHERE token = ? AND level_id = ?; changes === 1
consumeOneTimeTokenForLevel(table, token, levelId) ==
    [table |-> table \ {Row(token, levelId)},
     consumed |-> Row(token, levelId) \in table]

\* What the middleware does with a request: next(), or a refusal.
PassedOn == [passed |-> TRUE, status |-> 0, error |-> ""]
Refused(status, error) == [passed |-> FALSE, status |-> status, error |-> error]

\* The middleware letting a token through without deleting it (the mutant
\* of C30).
ensureAuthenticatedOrConsumeTokenForLevelParam_KeepsToken(table, admin, token, id) ==
    IF admin THEN [table |-> table, answer |-> PassedOn]
    ELSE IF token = "" THEN [table |-> table, answer |-> Refused(401, "Unauthorized")]
    ELSE IF id <= 0 THEN [table |-> table, answer |-> Refused(400, "Invalid level ID")]
    ELSE IF Row(token, id) \notin table
         THEN [table |-> table, answer |-> Refused(401, "Invalid token")]
    ELSE [table |-> table, answer |-> PassedOn]

\* The middleware on a request with or without an admin session, with the
\* token of its query ("" when it has none) and parseInt of its id
\* parameter (0 stands for every id that is not a positive number): the
\* table it leaves and its answer.
ensureAuthenticatedOrConsumeTokenForLevelParam(table, admin, token, id) ==
    IF admin THEN [table |-> table, answer |-> PassedOn]
    ELSE IF token = "" THEN [table |-> table, answer |-> Refused(401, "Unauthorized")]
    ELSE IF id <= 0 THEN [table |-> table, answer |-> Refused(400, "Invalid level ID")]
    ELSE IF ~consumeOneTimeTokenForLevel(table, token, id).consumed
         THEN [table |-> consumeOneTimeTokenForLevel(table, token, id).table,
               answer |-> Refused(401, "Invalid token")]
    ELSE [table |-> consumeOneTimeTokenForLevel(table, token, id).table,
          answer |-> PassedOn]

(***************************************************************************)
(* SpecToken: the server's requests that touch admin_tokens: an admin asks *)
(* for a token for a level; anyone sends PUT or DELETE on                  *)
(* /api/admin/levels/:id, with or without a session, with any token.       *)
(***************************************************************************)
MaxLevel == 2
MaxThrough == 4

LevelIds == 1..MaxLevel
TokenPool == {"token_A", "token_B", "token_C"}

\* What a request carries: no token, a token of the pool (issued, used or
\* not yet issued), or one the server never issues.
CarriedTokens == TokenPool \cup {"", "token_forged"}
FreshTokens == TokenPool \ {r.token : r \in issued}

NoRequest ==
    [method |-> "none", admin |-> FALSE, token |-> "", id |-> 0, answer |-> PassedOn,
     before |-> {}, after |-> {}, replay |-> FALSE]

\* The record of a request: what it carried, the middleware's answer, the
\* rows of its token before the request and after it, and whether a request
\* without session carrying the token had been let through before.
Served(method, admin, token, id, answer, table) ==
    [method |-> method, admin |-> admin, token |-> token, id |-> id, answer |-> answer,
     before |-> {r \in admin_tokens : r.token = token},
     after |-> {r \in table : r.token = token},
     replay |-> \E i \in 1..Len(through) : through[i].token = token]

InitToken ==
    /\ pc = "token.serving"
    /\ admin_tokens = {} /\ issued = {} /\ through = <<>> /\ last = NoRequest
    /\ levels = Unset /\ favorites = Unset /\ authors = Unset /\ files = Unset
    /\ uploadRateLimitByIp = Unset /\ downloadRateLimitByIp = Unset
    /\ favoriteRateLimitByIp = Unset /\ nowMs = Unset /\ res = Unset
    /\ arr = Unset /\ packed = Unset /\ unpacked = Unset
    /\ clone = Unset /\ encoded = Unset /\ decoded = Unset
    /\ validation = Unset
    /\ buf = Unset /\ str = Unset /\ routed = Unset

\* POST /api/admin/levels/:id/token by an admin, for a level that exists.
RequestToken ==
    /\ pc = "token.serving"
    /\ \E levelId \in LevelIds, token \in FreshTokens :
          /\ admin_tokens' = createOneTimeTokenForLevel(admin_tokens, token, levelId)
          /\ issued' = issued \cup {Row(token, levelId)}
    /\ UNCHANGED <<serverVars, pc, through, last, packVars, codecVars, validateVars, detectVars>>

\* PUT /api/admin/levels/:id: the middleware, then the handler, which after
\* a successful update creates two tokens for the level (the edit and the
\* delete link of the log message) and otherwise none.
PutLevel ==
    /\ pc = "token.serving"
    /\ \E admin \in BOOLEAN, token \in CarriedTokens, id \in 0..MaxLevel :
          LET m == ensureAuthenticatedOrConsumeTokenForLevelParam(admin_tokens, admin, token, id)
              counted == m.answer.passed /\ ~admin
          IN  /\ counted => Len(through) < MaxThrough
              /\ through' = IF counted THEN Append(through, [token |-> token, id |-> id])
                             ELSE through
              /\ \/ /\ admin_tokens' = m.table
                    /\ issued' = issued
                 \/ /\ m.answer.passed /\ id >= 1
                    /\ \E t1 \in FreshTokens, t2 \in FreshTokens :
                          /\ t1 # t2
                          /\ admin_tokens' =
                                createOneTimeTokenForLevel(
                                    createOneTimeTokenForLevel(m.table, t1, id), t2, id)
                          /\ issued' = issued \cup {Row(t1, id), Row(t2, id)}
              /\ last' = Served("PUT", admin, token, id, m.answer, m.table)
    /\ UNCHANGED <<serverVars, pc, packVars, codecVars, validateVars, detectVars>>

\* DELETE /api/admin/levels/:id: the middleware, then the handler, which
\* does not touch admin_tokens.
DeleteLevel ==
    /\ pc = "token.serving"
    /\ \E admin \in BOOLEAN, token \in CarriedTokens, id \in 0..MaxLevel :
          LET m == ensureAuthenticatedOrConsumeTokenForLevelParam(admin_tokens, admin, token, id)
              counted == m.answer.passed /\ ~admin
          IN  /\ counted => Len(through) < MaxThrough
              /\ through' = IF counted THEN Append(through, [token |-> token, id |-> id])
                             ELSE through
              /\ admin_tokens' = m.table
              /\ last' = Served("DELETE", admin, token, id, m.answer, m.table)
    /\ UNCHANGED <<serverVars, pc, issued, packVars, codecVars, validateVars, detectVars>>

NextToken == RequestToken \/ PutLevel \/ DeleteLevel

SpecToken == InitToken /\ [][NextToken]_vars

(***************************************************************************)
(* Claims about the bit-packer (checked under SpecPack)                    *)
(***************************************************************************)
\* C2: for every sequence of length 6..9 with elements in 0..3,
\* unpackToArray(packFromArray(seq)) equals seq.
\* (Violated: element 7 is written to bits 14-15, where the length is kept.)
C2_PackRoundTrip ==
    (pc = "pack.unpacked" /\ InContract(arr)) => unpacked = arr

\* What does hold of the round trip: it is exact for the lengths 6 and 7,
\* whose elements all lie below bit 14.
PackRoundTripUpTo7 ==
    (pc = "pack.unpacked" /\ Len(arr) \in 6..7) => unpacked = arr

\* C9: packFromArray throws (and returns no value) for every sequence whose
\* length is outside 6..9 or that has an element outside 0..3, the length
\* error taking precedence, and throws for no sequence inside the contract.
C9_PackPrecondition ==
    pc \in {"pack.packed", "pack.unpacked"} =>
        /\ packed.threw <=> ~InContract(arr)
        /\ packed.threw =>
              /\ DOMAIN packed = {"threw", "kind", "info"}
              /\ packed.kind = "lfValue must contain 6-9 elements"
                   <=> Len(arr) \notin MIN_LF_LENGTH..MAX_LF_LENGTH
        /\ InContract(arr) => packed.value \in Nat

\* C9 witness: a sequence of length 10 and a sequence holding a 4 have been
\* rejected (one or the other), i.e. the packer has thrown.
C9_Witness_Rejected ==
    /\ pc = "pack.packed"
    /\ packed.threw
    /\ \/ Len(arr) = 10
       \/ Len(arr) = 5
       \/ \E i \in 1..Len(arr) : arr[i] = 4

\* The bit positions of element i (0-based) and of the length field.
ElementBits(i) == {2 * i, 2 * i + 1}
LengthBits == {14, 15}

\* C10: for every sequence in the contract the packed value is in 0..65535,
\* element i is what bits 2i and 2i+1 hold, (length - 6) is what bits 14-15
\* hold, and no element's bits are the length's bits.
\* (Violated for the lengths 8 and 9: element 7 shares bits 14-15 with the
\* length, element 8 lies in bits 16-17.)
C10_BitLayout ==
    (pc \in {"pack.packed", "pack.unpacked"} /\ InContract(arr)) =>
        /\ ~packed.threw
        /\ packed.value \in 0..65535
        /\ \A i \in 0..(Len(arr) - 1) :
              /\ BitAnd3(ShiftRight(packed.value, 2 * i)) = arr[i + 1]
              /\ ElementBits(i) \cap LengthBits = {}
        /\ BitAnd3(ShiftRight(packed.value, 14)) = Len(arr) - MIN_LF_LENGTH

\* What does hold of the layout: it is as claimed for the lengths 6 and 7.
BitLayoutUpTo7 ==
    (pc \in {"pack.packed", "pack.unpacked"} /\ Len(arr) \in 6..7 /\ InContract(arr)) =>
        /\ packed.value \in 0..65535
        /\ \A i \in 0..(Len(arr) - 1) :
              BitAnd3(ShiftRight(packed.value, 2 * i)) = arr[i + 1]
        /\ BitAnd3(ShiftRight(packed.value, 14)) = Len(arr) - MIN_LF_LENGTH

\* C11: unpack is total: for every v in 0..65535 unpackToArray(v) returns a
\* sequence of ((v >> 14) & 3) + 6 elements, hence 6 to 9, whose i-th element
\* (counted from 0) is (v >> 2i) & 3, hence 0 to 3.
C11_UnpackTotal ==
    pc = "unpack.done" /\ packed.value \in 0..65535 =>
        LET v == packed.value IN
        /\ DOMAIN unpacked = 1..(((v \div 16384) % 4) + 6)
        /\ Len(unpacked) \in 6..9
        /\ \A i \in 0..(Len(unpacked) - 1) :
              /\ unpacked[i + 1] = (v \div (4 ^ i)) % 4
              /\ unpacked[i + 1] \in 0..3

\* C11's case: a number packFromArray never returns (length bits 3, element
\* 8 read from bits 16-17, which a 16-bit number does not have) unpacked to
\* nine elements.
C11_Witness_AllOnes ==
    /\ pc = "unpack.done"
    /\ packed.value = 65535
    /\ unpacked = <<3, 3, 3, 3, 3, 3, 3, 3, 0>>

(***************************************************************************)
(* Claims about the validator (checked under SpecValidate)                 *)
(*                                                                         *)
(* The thirteen rules as the spec states them, each as a property of the   *)
(* Clone (no loop, no early return).  A rule that reads a field is judged  *)
(* only on a Clone that has the field.                                     *)
(***************************************************************************)
SameCell(p, q) == p.plantRow = q.plantRow /\ p.plantCol = q.plantCol

HasTopLevelFields(c) ==
    {"plants", "music", "sun", "name", "lfValue", "stripeCol"} \subseteq DOMAIN c

PlacementsComplete(c) ==
    \A i \in 1..Len(c.plants) :
        {"zIndex", "plantRow", "plantCol", "plantName"} \subseteq DOMAIN c.plants[i]

BypassSet == {"oPumpkinHead", "oFlowerPot", "oLilyPad", "oILilyPad"}

SpecCapacity(c) ==
    IF Len(c.lfValue) >= 4 /\ c.lfValue[4] = 2
    THEN 108 + 6 * (c.stripeCol - 1)
    ELSE 90 + 5 * (c.stripeCol - 1)

RuleViolated(n, c) ==
    CASE n = 1 -> ~HasTopLevelFields(c)
      [] n = 2 -> HasTopLevelFields(c) /\ ~PlacementsComplete(c)
      [] n = 3 -> /\ HasTopLevelFields(c) /\ PlacementsComplete(c)
                  /\ \E i \in 1..Len(c.plants) :
                        Cardinality({j \in 1..Len(c.plants) : SameCell(c.plants[i], c.plants[j])}) > 3
      [] n = 4 -> HasTopLevelFields(c) /\ Len(c.lfValue) > 7
      [] n = 5 -> HasTopLevelFields(c) /\ c.sun > 9990
      [] n = 6 -> HasTopLevelFields(c) /\ c.music # "Cerebrawl"
      [] n = 7 -> HasTopLevelFields(c) /\ c.stripeCol \notin 3..8
      [] n = 8 -> HasTopLevelFields(c) /\ Len(c.plants) > SpecCapacity(c)
      [] n = 9 -> /\ HasTopLevelFields(c) /\ PlacementsComplete(c)
                  /\ \E i \in 1..Len(c.plants) :
                        /\ c.plants[i].plantCol + 1 > c.stripeCol
                        /\ ~(c.plants[i].plantName.t = "string"
                              /\ c.plants[i].plantName.v \in BypassSet)
      [] n = 10 -> /\ HasTopLevelFields(c) /\ PlacementsComplete(c)
                   /\ \E i, j \in 1..Len(c.plants) :
                         /\ i < j
                         /\ SameCell(c.plants[i], c.plants[j])
                         /\ c.plants[i].plantName = c.plants[j].plantName
      [] n = 11 -> /\ "selectedZombies" \in DOMAIN c
                   /\ \E i, j \in 1..Len(c.selectedZombies) :
                         i < j /\ c.selectedZombies[i] = c.selectedZombies[j]
      [] n = 12 -> /\ HasTopLevelFields(c) /\ PlacementsComplete(c)
                   /\ \E i \in 1..Len(c.plants) :
                         ~(c.plants[i].plantName.t = "string"
                            /\ c.plants[i].plantName.v \in {validPlants[k] : k \in 1..Len(validPlants)})
      [] n = 13 -> /\ "selectedZombies" \in DOMAIN c
                   /\ \E i \in 1..Len(c.selectedZombies) : c.selectedZombies[i] \notin iZombies

ViolatedRules(c) == {n \in 1..13 : RuleViolated(n, c)}

LowestOf(S) == CHOOSE n \in S : \A m \in S : n <= m

\* The first line of each rule's message.
RuleMessage(n) ==
    CASE n = 1 -> "Clone is missing required fields: "
      [] n = 2 -> "Plants are missing required fields."
      [] n = 3 -> "Too many plants in one tile."
      [] n = 4 -> "LF value length exceeds 7."
      [] n = 5 -> "Sun value exceeds 9990."
      [] n = 6 -> "Invalid music track."
      [] n = 7 -> "Invalid stripe column."
      [] n = 8 -> "Too many plants in the clone."
      [] n = 9 -> "Plants are placed after the stripe column."
      [] n = 10 -> "Duplicate plant types in the same tile."
      [] n = 11 -> "Duplicate zombies in selected zombies."
      [] n = 12 -> "Clone contains invalid plants."
      [] n = 13 -> "Clone contains invalid zombies."

\* C3: for a Clone violating one or more of the rules 1..13, validateClone
\* returns (false, reason) and reason is the message of the lowest-numbered
\* violated rule.
C3_ShortCircuitOrder ==
    (pc = "validate.done" /\ ViolatedRules(clone) # {}) =>
        /\ validation.ok = FALSE
        /\ validation.reason[1] = RuleMessage(LowestOf(ViolatedRules(clone)))

\* C3 witness: a Clone with sun = 9991 that violates no rule 1..4 but also the
\* rules 6, 7 and 12 has been given the sun reason.
C3_Witness_SunBeforeLater ==
    /\ pc = "validate.done"
    /\ ViolatedRules(clone) \cap (1..4) = {}
    /\ {5, 6, 7, 12} \subseteq ViolatedRules(clone)
    /\ clone.sun = 9991
    /\ validation = Fail(<<"Sun value exceeds 9990.">>)

\* C4: a Clone that validateClone accepts has at most 3 placements per cell,
\* no two placements of one plantName in a cell, an lfValue of length at most
\* 7, sun at most 9990, stripeCol in 3..8, every placement complete, and
\* beyond the stripe only placements of the bypass set.
C4_ValidatorSoundness ==
    (pc = "validate.done" /\ validation.ok) =>
        /\ HasTopLevelFields(clone)
        /\ ViolatedRules(clone) \cap {2, 3, 4, 5, 7, 9, 10} = {}

\* C4 witness: an accepted Clone with three placements in one cell, one of
\* them a bypass plant, and a bypass plant beyond the stripe.
C4_Witness_Accepted ==
    /\ pc = "validate.done"
    /\ validation.ok
    /\ Len(clone.plants) = 4
    /\ \E i \in 1..4 : clone.plants[i] = Placement("oPumpkinHead", 0, 9)
    /\ Cardinality({i \in 1..4 : clone.plants[i].plantCol = 0}) = 3

\* A Clone that violates no rule other than the placement-count rule.
OtherwiseValid(c) == ViolatedRules(c) \ {8} = {}

\* C12: the placement-count rule accepts a Clone iff it has at most
\* 90 + 5 (stripeCol - 1) placements on land and 108 + 6 (stripeCol - 1) on
\* water (lfValue[3] = 2); an otherwise valid land Clone with stripeCol = 3
\* is accepted with 100 placements and rejected with 101, with the reason
\* "Too many plants in the clone.".
C12_PlacementCapacity ==
    pc = "validate.done" /\ HasTopLevelFields(clone) =>
        /\ clone.stripeCol >= 1 =>
              (hasValidPlantCount(clone) <=> Len(clone.plants) <= SpecCapacity(clone))
        /\ ViolatedRules(clone) \cap (1..7) = {} =>
              (validation = Fail(<<"Too many plants in the clone.">>)
                  <=> Len(clone.plants) > SpecCapacity(clone))
        /\ OtherwiseValid(clone) =>
              (validation.ok <=> Len(clone.plants) <= SpecCapacity(clone))
        /\ OtherwiseValid(clone) /\ clone.stripeCol = 3 /\ clone.lfValue[4] # 2 =>
              /\ Len(clone.plants) = 100 => validation = Ok
              /\ Len(clone.plants) = 101 => validation = Fail(<<"Too many plants in the clone.">>)

\* C12's case: the land Clone with stripeCol = 3 and exactly 100 placements
\* has been accepted.
C12_Witness_Exactly100 ==
    /\ pc = "validate.done"
    /\ HasTopLevelFields(clone)
    /\ clone.stripeCol = 3 /\ clone.lfValue[4] # 2
    /\ Len(clone.plants) = 100
    /\ validation = Ok

\* The rule at the other boundaries: land at stripeCol = 8, water at
\* stripeCol = 3 and 8.
PlacementCapacityOtherBoundaries ==
    pc = "validate.done" /\ HasTopLevelFields(clone) =>
        /\ clone.stripeCol = 8 /\ clone.lfValue[4] # 2 =>
              (hasValidPlantCount(clone) <=> Len(clone.plants) <= 125)
        /\ clone.stripeCol = 3 /\ clone.lfValue[4] = 2 =>
              (hasValidPlantCount(clone) <=> Len(clone.plants) <= 120)
        /\ clone.stripeCol = 8 /\ clone.lfValue[4] = 2 =>
              (hasValidPlantCount(clone) <=> Len(clone.plants) <= 150)

\* Some placement lies beyond the stripe and is not of the bypass set.
BeyondStripe(c) ==
    \E i \in 1..Len(c.plants) :
        /\ c.plants[i].plantCol + 1 > c.stripeCol
        /\ ~(c.plants[i].plantName.t = "string" /\ c.plants[i].plantName.v \in BypassSet)

IsOnly(c, name, col) ==
    /\ Len(c.plants) = 1
    /\ c.plants[1].plantName = JSStr(name)
    /\ c.plants[1].plantCol = col

\* C13: the stripe rule rejects a Clone iff some placement has
\* plantCol + 1 > stripeCol and a plantName outside {oPumpkinHead,
\* oFlowerPot, oLilyPad, oILilyPad}; with stripeCol = 4, oPumpkinHead at
\* plantCol 10 passes and oPeashooter at plantCol 10 fails with "Plants are
\* placed after the stripe column.".
C13_StripeRule ==
    pc = "validate.done" /\ HasTopLevelFields(clone) /\ PlacementsComplete(clone) =>
        /\ noPlantsAfterStripe(clone) <=> ~BeyondStripe(clone)
        /\ ViolatedRules(clone) \cap (1..8) = {} =>
              (validation = Fail(<<"Plants are placed after the stripe column.">>)
                  <=> BeyondStripe(clone))
        /\ clone.stripeCol = 4 /\ ViolatedRules(clone) \cap (1..8) = {} =>
              /\ IsOnly(clone, "oPumpkinHead", 10) => validation = Ok
              /\ IsOnly(clone, "oPeashooter", 10) =>
                    validation = Fail(<<"Plants are placed after the stripe column.">>)

\* C13's case: with stripeCol = 4, the Clone whose only placement is
\* oPeashooter at plantCol 10 has been rejected by the stripe rule.
C13_Witness_PeashooterBeyond ==
    /\ pc = "validate.done"
    /\ HasTopLevelFields(clone)
    /\ clone.stripeCol = 4
    /\ IsOnly(clone, "oPeashooter", 10)
    /\ validation = Fail(<<"Plants are placed after the stripe column.">>)

UniformContractOtherKinds ==
    pc = "validate.done" /\ HasTopLevelFields(clone) =>
        /\ ~PlacementsComplete(clone) => validation = Fail(<<"Plants are missing required fields.">>)
        /\ PlacementsComplete(clone) /\ clone.sun > 9990 /\ ViolatedRules(clone) \cap (1..4) = {}
              => validation = Fail(<<"Sun value exceeds 9990.">>)

(***************************************************************************)
(* Claims about format detection (checked under SpecDetect and SpecString) *)
(***************************************************************************)
\* The buffer's first four bytes are 49 5A 4C 33.
StartsWithMagic(b) ==
    /\ ByteLength(b) >= 4
    /\ <<ByteAt(b, 0), ByteAt(b, 1), ByteAt(b, 2), ByteAt(b, 3)>> = <<73, 90, 76, 51>>

\* The buffer's first byte is 0x78.
FirstByteIs78(b) == ByteLength(b) >= 1 /\ ByteAt(b, 0) = 120

FormatErrorMessages == {"Unknown level data format", "Invalid data format"}

IsFormatError(result) == result.threw /\ result.kind \in FormatErrorMessages

\* C5: every byte buffer that starts with the magic 49 5A 4C 33 is decoded
\* by the Format-3 path, whatever follows; every other buffer whose first
\* byte is 0x78 is decoded by the Format-2 path.
C5_ByteEntryDetection ==
    pc = "detect.done" =>
        /\ StartsWithMagic(buf) => routed.path = "Format3"
        /\ ~StartsWithMagic(buf) /\ FirstByteIs78(buf) => routed.path = "Format2"

\* The part of C5 every byte entry point keeps: the magic goes to Format 3,
\* and a buffer of two bytes or more that starts with 0x78 to Format 2.
ByteDetectionFromTwoBytes ==
    pc = "detect.done" =>
        /\ StartsWithMagic(buf) => routed.path = "Format3"
        /\ ~StartsWithMagic(buf) /\ FirstByteIs78(buf) /\ ByteLength(buf) >= 2
              => routed.path = "Format2"

\* decode.ts's decodeFile does what C5 says.
ByteDetection_decodeTs ==
    pc = "detect.done" /\ routed.entry = "decode.ts decodeFile" =>
        /\ StartsWithMagic(buf) => routed.path = "Format3"
        /\ ~StartsWithMagic(buf) /\ FirstByteIs78(buf) => routed.path = "Format2"

\* C8: a byte buffer with neither the magic nor a 0x78 first byte is never
\* rejected with a format error, and it is parsed by the Format-2 path, not
\* by the Format-1 JSON path.
C8_ByteEntryFallback ==
    pc = "detect.done" /\ ~StartsWithMagic(buf) /\ ~FirstByteIs78(buf) =>
        /\ ~IsFormatError(routed.result)
        /\ routed.path = "Format2"

\* The part of C8 every byte entry point keeps: no format error.
ByteFallbackNeverFormatError ==
    pc = "detect.done" /\ ~StartsWithMagic(buf) /\ ~FirstByteIs78(buf) =>
        ~IsFormatError(routed.result)

\* decode.ts's decodeFile does what C8 says.
ByteFallback_decodeTs ==
    pc = "detect.done" /\ routed.entry = "decode.ts decodeFile"
        /\ ~StartsWithMagic(buf) /\ ~FirstByteIs78(buf) =>
        /\ ~IsFormatError(routed.result)
        /\ routed.path = "Format2"

\* The string's first character ("" for the empty string).
FirstChar(s) == CharAt(s, 0)

ContainsSemicolon(s) == \E i \in 1..Len(s.chars) : s.chars[i] = ";"

UnknownString(s) ==
    /\ FirstChar(s) \notin {"|", "="}
    /\ ~ContainsSemicolon(s)
    /\ ~(CharAt(s, 0) = "e" /\ CharAt(s, 1) = "J")

\* C7: a string of unknown format fails with "Unknown level data format"
\* and is routed to no decoder.
C7_UnknownStringFails ==
    pc = "string.done" /\ UnknownString(str) =>
        /\ routed.path = "none"
        /\ routed.result.threw
        /\ routed.result.kind = "Unknown level data format"

\* decode.ts's decodeLevelData does what C7 says.
UnknownStringFails_decodeTs ==
    pc = "string.done" /\ routed.entry = "decodeLevelData" /\ UnknownString(str) =>
        /\ routed.path = "none"
        /\ routed.result.threw
        /\ routed.result.kind = "Unknown level data format"

\* decodeString gives Format 1 every string that has no "|" or "=" prefix,
\* and never the error "Unknown level data format".
DecodeStringDefaultsToFormat1 ==
    pc = "string.done" /\ routed.entry = "decodeString" =>
        /\ FirstChar(str) \notin {"|", "="} => routed.path = "Format1"
        /\ ~(routed.result.threw /\ routed.result.kind = "Unknown level data format")

(***************************************************************************)
(* Claims about the Format-3 codec (checked under SpecCodec)               *)
(***************************************************************************)
\* The Clone is in the data model: lfValue of 6 to 9 elements, each 0 to 3.
InDataModel(c) ==
    /\ Len(c.lfValue) \in 6..9
    /\ \A i \in 1..Len(c.lfValue) : c.lfValue[i] \in 0..3

CorePlantFields == {"plantName", "plantRow", "plantCol", "zIndex"}

\* d equals c on the core fields and on every placement's core fields, in
\* the same order.
CoreEqual(d, c) ==
    /\ {"name", "sun", "music", "stripeCol", "lfValue", "plants"} \subseteq DOMAIN d
    /\ d.name = c.name /\ d.sun = c.sun /\ d.music = c.music
    /\ d.stripeCol = c.stripeCol
    /\ d.lfValue = c.lfValue
    /\ Len(d.plants) = Len(c.plants)
    /\ \A i \in 1..Len(c.plants) :
          /\ CorePlantFields \subseteq DOMAIN d.plants[i]
          /\ \A f \in CorePlantFields : d.plants[i][f] = c.plants[i][f]

\* C1: decoding the Format-3 encoder's output, file or string, gives back a
\* Clone equal to the encoded one on the core fields, for every Clone of the
\* data model (lfValue of any length 6 to 9).
C1_CodecRoundTrip ==
    pc = "codec.decoded" /\ InDataModel(clone) =>
        /\ ~decoded.result.threw
        /\ CoreEqual(decoded.result.value, clone)

\* The round trip C1 states holds of every Clone whose lfValue has at most
\* 7 elements; the encoder accepts every Clone of the data model, and its
\* output is decoded by the Format-3 path.
CodecRoundTripUpTo7 ==
    /\ pc \in {"codec.file", "codec.string"} /\ InDataModel(clone) => ~encoded.threw
    /\ pc = "codec.decoded" => decoded.path = "Format3" /\ ~decoded.result.threw
    /\ pc = "codec.decoded" /\ Len(clone.lfValue) <= 7 =>
          CoreEqual(decoded.result.value, clone)

\* Apart from lfValue, the round trip holds at every length.
CodecRoundTripButLfValue ==
    pc = "codec.decoded" =>
        CoreEqual([decoded.result.value EXCEPT !.lfValue = clone.lfValue], clone)

\* C17: every output of the encoder is recognised as Format 3: the bytes
\* encodeIZL3File returns start with 49 5A 4C 33 (hex) and detectFileVersion
\* gives 3 for them; the string encodeIZL3String returns starts with "|" and
\* detectStringVersion gives 3 for it.
C17_EncoderOutputIsFormat3 ==
    /\ pc = "codec.file" /\ ~encoded.threw =>
          /\ ByteLength(encoded.value) >= 4
          /\ <<ByteAt(encoded.value, 0), ByteAt(encoded.value, 1),
               ByteAt(encoded.value, 2), ByteAt(encoded.value, 3)>> = <<73, 90, 76, 51>>
          /\ detectFileVersion(encoded.value) = 3
    /\ pc = "codec.string" /\ ~encoded.threw =>
          /\ CharAt(encoded.value, 0) = "|"
          /\ detectStringVersion(encoded.value) = 3

\* C17's case: a Clone with placements was encoded to the file form and the
\* file is classified as version 3.
C17_Witness_FileOfTwoPlacements ==
    /\ pc = "codec.file"
    /\ Len(clone.plants) = 2
    /\ ~encoded.threw
    /\ detectFileVersion(encoded.value) = 3

\* After the magic and after the "|" comes the deflated payload: the fifth
\* byte of the file is 0x78, and the string is "|" followed by the base64
\* text of the payload.
EncoderOutputBody ==
    /\ pc = "codec.file" /\ ~encoded.threw =>
          /\ ByteAt(encoded.value, 4) = 120
          /\ SliceFrom(encoded.value, 4) = encodeIZL3Payload(clone).value
    /\ pc = "codec.string" /\ ~encoded.threw =>
          stringToBytesIZL3(encoded.value) = bytesToBase64(encodeIZL3Payload(clone).value)

(***************************************************************************)
(* Claims about a Format-3 body that is not deflated (SpecPlainBody)       *)
(***************************************************************************)
\* The body handed to the Format-3 decoder: the file after its magic, the
\* bytes of the string after its "|".
GivenBody == IF pc = "detect.done" THEN SliceFrom(buf, 4) ELSE str.b64
Decoded == pc \in {"detect.done", "string.done"}

\* C18: a Format-3 body that is not deflated is decoded all the same: its
\* first byte is not 0x78, so no decompression is attempted (or the failed
\* decompression is set aside), the body is deserialized as msgpack and the
\* Clone comes out.
C18_ToleratesPlainBody ==
    Decoded /\ HasPlain(GivenBody) =>
        /\ routed.path = "Format3"
        /\ ~routed.result.threw
        /\ CoreEqual(routed.result.value, clone)

\* What the decoders do: every entry point takes the Format-3 path and the
\* decode fails in pako.inflate, or on the undefined it returned, though
\* the body's first byte is not 0x78.
PlainBodyFails ==
    Decoded /\ HasPlain(GivenBody) =>
        /\ ByteAt(GivenBody, 0) # 120
        /\ routed.path = "Format3"
        /\ routed.result.threw
        /\ routed.result.kind \in {"pako.inflate", "msgpackDecode"}

\* A deflated body is decoded by the entry points of levels_io.ts to the
\* Clone that was written.
DeflatedBodyDecodes ==
    /\ Decoded /\ HasStream(GivenBody) => ByteAt(GivenBody, 0) = 120 /\ ~routed.result.threw
    /\ Decoded /\ HasStream(GivenBody)
          /\ routed.entry \in {"decodeBytes", "decodeFile", "decodeString"} =>
             CoreEqual(routed.result.value, clone)

(***************************************************************************)
(* Claims about Format-2 coercion (checked under SpecFormat2)              *)
(***************************************************************************)
\* The pairs of the Format-2 text given, and a pair's field.
GivenPairs == IF pc = "detect.done" THEN buf.z.content.val ELSE str.b64.z.content.val
FieldOf(pair) == ReverseKeyIn(TINYIFIER_MAP, pair.k)
Coded(pairs) == {i \in 1..Len(pairs) : HasCode(TINYIFIER_MAP, pairs[i].k)}
GivenPlants == LastPairOf(TINYIFIER_MAP, GivenPairs, "plants").plants

IsIntegerOf(x, text) ==
    x.t = "number" /\ text \in DOMAIN NumeralValue /\ x.v = NumeralValue[text]
IsStringOf(x, text) == x.t = "string" /\ x.v = text

\* The placement p decoded from the pairs: every coded field is there,
\* zIndex, plantRow and plantCol as integers, any other as the text.
PlacementAsWritten(p, pairs) ==
    \A i \in Coded(pairs) :
        /\ FieldOf(pairs[i]) \in DOMAIN p
        /\ IF FieldOf(pairs[i]) \in {"zIndex", "plantRow", "plantCol"}
           THEN IsIntegerOf(p[FieldOf(pairs[i])], pairs[i].text)
           ELSE IsStringOf(p[FieldOf(pairs[i])], pairs[i].text)

\* The Clone r decoded from the pairs: every coded field is there, sun and
\* stripeCol as integers, lfValue as a list of numbers, plants placement by
\* placement, any other as the text.
CloneAsWritten(r, pairs) ==
    \A i \in Coded(pairs) :
        /\ FieldOf(pairs[i]) \in DOMAIN r
        /\ LET f == FieldOf(pairs[i])
           IN  IF f \in {"sun", "stripeCol"} THEN IsIntegerOf(r[f], pairs[i].text)
               ELSE IF f = "lfValue"
               THEN /\ Len(r[f]) = Len(pairs[i].items)
                    /\ \A n \in 1..Len(r[f]) : IsIntegerOf(r[f][n], pairs[i].items[n])
               ELSE IF f = "plants"
               THEN /\ Len(r[f]) = Len(pairs[i].plants)
                    /\ \A n \in 1..Len(r[f]) : PlacementAsWritten(r[f][n], pairs[i].plants[n])
               ELSE IsStringOf(r[f], pairs[i].text)

\* C19: in a Clone decoded from Format 2, exactly zIndex, plantRow, plantCol
\* of each placement and sun, stripeCol are integers parsed from the text,
\* lfValue is a list of numbers, and every other field (name, music,
\* plantName, eleLeft, eleTop, eleWidth, eleHeight among them) is the
\* unparsed string; no field is dropped.
C19_Format2Coercion ==
    Decoded =>
        /\ routed.path = "Format2"
        /\ ~routed.result.threw
        /\ CloneAsWritten(routed.result.value, GivenPairs)

\* levels_io.ts decodes Format 2 as C19 says.
Format2Coercion_levelsIo ==
    Decoded /\ routed.entry \in {"decodeBytes", "decodeFile", "decodeString"} =>
        /\ routed.path = "Format2"
        /\ ~routed.result.threw
        /\ CloneAsWritten(routed.result.value, GivenPairs)

\* decode.ts decodes the top level the same way; of a placement it parses
\* eleLeft and eleTop as integers too and stores neither eleWidth nor
\* eleHeight.
Format2Coercion_decodeTs ==
    Decoded /\ routed.entry \in {"decode.ts decodeFile", "decodeLevelData"} =>
        /\ routed.path = "Format2"
        /\ ~routed.result.threw
        /\ LET r == routed.result.value
           IN  /\ CloneAsWritten([r EXCEPT !.plants = <<>>],
                                 [i \in 1..Len(GivenPairs) |->
                                     [GivenPairs[i] EXCEPT !.plants = <<>>]])
               /\ Len(r.plants) = Len(GivenPlants)
               /\ \A n \in 1..Len(r.plants) :
                     \A i \in Coded(GivenPlants[n]) :
                         LET f == FieldOf(GivenPlants[n][i])
                             text == GivenPlants[n][i].text
                         IN  /\ f \in {"eleWidth", "eleHeight"} <=> f \notin DOMAIN r.plants[n]
                             /\ f \in {"zIndex", "plantRow", "plantCol", "eleLeft", "eleTop"} =>
                                   IsIntegerOf(r.plants[n][f], text)
                             /\ f = "plantName" => IsStringOf(r.plants[n][f], text)

(***************************************************************************)
(* Claims about the plantName mapping (checked under SpecPlantName)        *)
(***************************************************************************)
\* The plantName given, and whether a number is an index of the list.
GivenPlantName == clone.plants[1].plantName
SameValue(a, b) == a.t = b.t /\ a.v = b.v
IsPlantIndex(n) == n \in 0..(Len(allPlantsStringArray) - 1)

\* C16: decoding Format 3, a plantName given as a number n becomes the entry
\* of the name list at index n when n is an index of the list and stays the
\* number n otherwise, a plantName given as a string is unchanged, and no
\* case raises; the encoder writes a plantName that is in the list as its
\* index and any other string unchanged.
C16_PlantNameIndexMapping ==
    /\ pc = "plantName.decoded" =>
          /\ ~decoded.threw
          /\ LET d == decoded.value.plants[1].plantName
                 v == GivenPlantName
             IN  /\ v.t = "number" /\ IsPlantIndex(v.v) =>
                       SameValue(d, JSStr(allPlantsStringArray[v.v + 1]))
                 /\ v.t = "number" /\ ~IsPlantIndex(v.v) => SameValue(d, v)
                 /\ v.t = "string" => SameValue(d, v)
    /\ pc = "plantName.tinyified" =>
          /\ ~encoded.threw
          /\ LET e == encoded.value["4"][1]["9"]
                 v == GivenPlantName
             IN  /\ v.t = "string" /\ (\E i \in 1..Len(allPlantsStringArray) :
                                          allPlantsStringArray[i] = v.v) =>
                       /\ e.t = "number" /\ IsPlantIndex(e.v)
                       /\ allPlantsStringArray[e.v + 1] = v.v
                 /\ v.t = "string" /\ (\A i \in 1..Len(allPlantsStringArray) :
                                          allPlantsStringArray[i] # v.v) => SameValue(e, v)

\* C16's case: the first number past the list's last index was decoded and
\* came out as that number.
C16_Witness_FirstPastTheList ==
    /\ pc = "plantName.decoded"
    /\ SameValue(GivenPlantName, JSNum(Len(allPlantsStringArray)))
    /\ ~decoded.threw
    /\ SameValue(decoded.value.plants[1].plantName, JSNum(Len(allPlantsStringArray)))

\* The two directions agree: what the encoder writes for a name of the list
\* the decoder reads back as that name (index 0, the first name, included).
PlantNameIndexRoundTrip ==
    pc = "plantName.tinyified" /\ ~encoded.threw /\ GivenPlantName.t = "string" =>
        SameValue(reversePlantValue(allPlantsStringArray, "plantName",
                                    encoded.value["4"][1]["9"]), GivenPlantName)

(***************************************************************************)
(* Claims about validation before encoding (checked under SpecPublish)     *)
(***************************************************************************)
\* C14: every Clone validateClone accepts is encoded by encodeIZL3File and
\* encodeIZL3String without the bit-packer's precondition error: no accepted
\* Clone has an lfValue of a length outside 6..9 or an element outside 0..3.
C14_ValidationProtectsEncoder ==
    /\ pc = "validate.done" /\ validation.ok => InDataModel(clone)
    /\ pc \in {"publish.file", "publish.string"} => ~encoded.threw

\* What the validator does guarantee of an accepted lfValue: at most 7
\* elements; and the encoder fails on an accepted Clone only with the
\* packer's two errors.
AcceptedLfAtMost7 ==
    /\ pc = "validate.done" /\ validation.ok => Len(clone.lfValue) <= 7
    /\ pc \in {"publish.file", "publish.string"} /\ encoded.threw =>
          /\ ~InDataModel(clone)
          /\ encoded.kind \in {"lfValue must contain 6-9 elements",
                               "lfValue element must be an integer 0-3"}

(***************************************************************************)
(* Claims about one-time admin tokens (checked under SpecToken)            *)
(***************************************************************************)
\* The last request came without session, carrying a token that was issued,
\* for a level id; and the row that token was issued with.
LastCarriesIssued ==
    /\ last.method \in {"PUT", "DELETE"} /\ ~last.admin /\ last.id >= 1
    /\ \E r \in issued : r.token = last.token
IssuedRow(token) == CHOOSE r \in issued : r.token = token

TokenForOtherLevelKept ==
    /\ LastCarriesIssued
    /\ last.id # IssuedRow(last.token).level_id
    /\ last.before # {} /\ last.after = last.before
    /\ last.answer = Refused(401, "Invalid token")

\* Outside C20: a request with an admin session passes without using up
\* the token it carries; one without session whose id is no positive
\* number is answered 400 and the token stays; a token never issued, and no
\* token at all, are answered 401; no token is in the table under two
\* levels.
TokenOtherRequests ==
    /\ last.method # "none" /\ last.admin => last.answer.passed /\ last.after = last.before
    /\ last.method # "none" /\ ~last.admin /\ last.token # "" /\ last.id <= 0 =>
          /\ last.answer = Refused(400, "Invalid level ID")
          /\ last.after = last.before
    /\ last.method # "none" /\ ~last.admin /\ last.token = "" =>
          last.answer = Refused(401, "Unauthorized")
    /\ last.method # "none" /\ ~last.admin /\ last.token = "token_forged" =>
          ~last.answer.passed
    /\ \A r1 \in admin_tokens, r2 \in admin_tokens : r1.token = r2.token => r1 = r2
    /\ admin_tokens \subseteq issued

(***************************************************************************)
(* The level routes (src/unnamed/part_001, registerLevelRoutes) and the    *)
(* admin routes (src/modules/routes/admin.ts).  A table is the set of its  *)
(* rows, or a function from the primary key to the row; a Map is a         *)
(* function whose domain is the set of its keys.                           *)
(***************************************************************************)
MapGet(map, key, default) == IF key \in DOMAIN map THEN map[key] ELSE default
MapSet(map, key, value) == [k \in DOMAIN map \cup {key} |-> IF k = key THEN value ELSE map[k]]

RECURSIVE pruneOldestTimestamps(_, _)
pruneOldestTimestamps(timestamps, cutoffMs) ==
    IF Len(timestamps) > 0 /\ timestamps[1] <= cutoffMs
    THEN pruneOldestTimestamps(Tail(timestamps), cutoffMs)
    ELSE timestamps

ClientIPs == {"ip_a", "ip_b"}

\* A row of table levels as the upload INSERT makes it; favorites and
\* plays default to 0.
LevelRow(name, author, sun, is_water, version) ==
    [name |-> name, author |-> author, sun |-> sun, is_water |-> is_water,
     version |-> version, favorites |-> 0, plays |-> 0]

\* The request before the first one.
NoResponse == [route |-> "none", status |-> 0, served |-> 0]

(***************************************************************************)
(* POST /api/levels/:id/favorite (part_001 584-652, db.ts 38-46)           *)
(***************************************************************************)
FAVORITE_WINDOW_MS == 10000
FAVORITE_LIMIT == 30

FavoriteRow(levelId, clientIP, now) ==
    [level_id |-> levelId, ip_address |-> clientIP, created_at |-> now]

\* UPDATE levels SET favorites = (SELECT COUNT(*) ...) WHERE id = ?
recomputeFavorites_CountsEveryLevel(levelTable, favoriteTable, levelId) ==
    IF levelId \in DOMAIN levelTable
    THEN [levelTable EXCEPT ![levelId].favorites = Cardinality(favoriteTable)]
    ELSE levelTable

recomputeFavorites(levelTable, favoriteTable, levelId) ==
    IF levelId \in DOMAIN levelTable
    THEN [levelTable EXCEPT ![levelId].favorites =
             Cardinality({r \in favoriteTable : r.level_id = levelId})]
    ELSE levelTable

\* INSERT OR IGNORE under UNIQUE(level_id, ip_address), or DELETE, then
\* recomputeFavorites.  created_at is Math.floor(Date.now() / 1000).
setFavorite_NeverDeletes(levelTable, favoriteTable, levelId, clientIP, favorite, now) ==
    LET present == \E r \in favoriteTable : r.level_id = levelId /\ r.ip_address = clientIP
        rows == IF present THEN favoriteTable
                ELSE favoriteTable \cup {FavoriteRow(levelId, clientIP, now \div 1000)}
    IN  [favorites |-> rows, levels |-> recomputeFavorites(levelTable, rows, levelId)]

setFavorite(levelTable, favoriteTable, levelId, clientIP, favorite, now) ==
    LET present == \E r \in favoriteTable : r.level_id = levelId /\ r.ip_address = clientIP
        rows == IF favorite
                THEN IF present THEN favoriteTable
                     ELSE favoriteTable \cup {FavoriteRow(levelId, clientIP, now \div 1000)}
                ELSE {r \in favoriteTable : ~(r.level_id = levelId /\ r.ip_address = clientIP)}
    IN  [favorites |-> rows, levels |-> recomputeFavorites(levelTable, rows, levelId)]

\* The handler: the favorite limiter, the id, the level, the toggle.  The
\* array pruned is the one the Map holds, so a refused request leaves the
\* pruned array in the Map; the purge of a Map of more than 20 000 keys is
\* out of reach of ClientIPs.  levelId is parseInt(req.params.id).
favoriteToggleRouteHandler(levelTable, favoriteTable, limiter, levelId, clientIP, now) ==
    LET favoriteTimestamps ==
            pruneOldestTimestamps(MapGet(limiter, clientIP, <<>>), now - FAVORITE_WINDOW_MS)
        refusedLimiter ==
            IF clientIP \in DOMAIN limiter THEN MapSet(limiter, clientIP, favoriteTimestamps)
            ELSE limiter
        passedLimiter == MapSet(limiter, clientIP, Append(favoriteTimestamps, now))
        existingFavorite ==
            \E r \in favoriteTable : r.level_id = levelId.v /\ r.ip_address = clientIP
        toggled == setFavorite(levelTable, favoriteTable, levelId.v, clientIP,
                               ~existingFavorite, now)
    IN  IF Len(favoriteTimestamps) >= FAVORITE_LIMIT
        THEN [status |-> 429, error |-> "Rate limit exceeded", levels |-> levelTable,
              favorites |-> favoriteTable, limiter |-> refusedLimiter]
        ELSE IF levelId = JSNaN
        THEN [status |-> 400, error |-> "Invalid level ID", levels |-> levelTable,
              favorites |-> favoriteTable, limiter |-> passedLimiter]
        ELSE IF levelId.v \notin DOMAIN levelTable
        THEN [status |-> 404, error |-> "Level not found", levels |-> levelTable,
              favorites |-> favoriteTable, limiter |-> passedLimiter]
        ELSE [status |-> 200, error |-> "", levels |-> toggled.levels,
              favorites |-> toggled.favorites, limiter |-> passedLimiter]

MaxRequests == 3
MaxStale == 1

ClockStart == 100 * FAVORITE_WINDOW_MS
FavoriteInstants ==
    {ClockStart, ClockStart + FAVORITE_WINDOW_MS - 1, ClockStart + FAVORITE_WINDOW_MS}

\* ids a request names: the levels, one id without a level, and one that
\* parseInt makes NaN.
RequestedIds == {JSNum(n) : n \in 1..(MaxLevel + 1)} \cup {JSNaN}

\* The counter of a level may have been set by an admin edit to anything
\* (here: that of level 1); one client may have sent all but one request of
\* its window.
InitFavorite ==
    /\ pc = "favorite.serving"
    /\ \E counter \in 0..MaxStale :
          levels = [l \in LevelIds |->
                       [LevelRow("Cerebrawl", "author", 150, FALSE, 3)
                           EXCEPT !.favorites = IF l = 1 THEN counter ELSE 0]]
    /\ favorites = {}
    /\ nowMs = ClockStart
    /\ \/ favoriteRateLimitByIp = EmptyMap
       \/ favoriteRateLimitByIp =
             MapSet(EmptyMap, "ip_a", [i \in 1..(FAVORITE_LIMIT - 1) |-> ClockStart])
    /\ res = NoResponse
    /\ authors = Unset /\ files = Unset
    /\ uploadRateLimitByIp = Unset /\ downloadRateLimitByIp = Unset
    /\ arr = Unset /\ packed = Unset /\ unpacked = Unset
    /\ clone = Unset /\ encoded = Unset /\ decoded = Unset
    /\ validation = Unset
    /\ buf = Unset /\ str = Unset /\ routed = Unset
    /\ admin_tokens = Unset /\ issued = Unset /\ through = Unset /\ last = Unset

\* What is remembered of the request before this one.
PreviousOf(r) ==
    IF r.route = "none" THEN [route |-> "none"]
    ELSE [route |-> r.route, ip |-> r.ip, id |-> r.id, status |-> r.status,
          before |-> r.before]

Favorite ==
    /\ pc = "favorite.serving"
    /\ res.served < MaxRequests
    /\ \E levelId \in RequestedIds, clientIP \in ClientIPs :
          LET h == favoriteToggleRouteHandler(levels, favorites, favoriteRateLimitByIp,
                                              levelId, clientIP, nowMs)
          IN  /\ levels' = h.levels
              /\ favorites' = h.favorites
              /\ favoriteRateLimitByIp' = h.limiter
              /\ res' = [route |-> "favorite", ip |-> clientIP, id |-> levelId,
                         status |-> h.status, error |-> h.error,
                         served |-> res.served + 1,
                         before |-> [favorites |-> favorites, levels |-> levels],
                         previous |-> PreviousOf(res)]
    /\ UNCHANGED <<pc, nowMs, authors, files, uploadRateLimitByIp, downloadRateLimitByIp,
                   tokenVars, packVars, codecVars, validateVars, detectVars>>

\* Time passes between two requests.
AdvanceFavorite ==
    /\ pc = "favorite.serving"
    /\ \E t \in FavoriteInstants : t > nowMs /\ nowMs' = t
    /\ UNCHANGED <<pc, levels, favorites, authors, files, uploadRateLimitByIp,
                   downloadRateLimitByIp, favoriteRateLimitByIp, res,
                   tokenVars, packVars, codecVars, validateVars, detectVars>>

NextFavorite == Favorite \/ AdvanceFavorite

SpecFavorite == InitFavorite /\ [][NextFavorite]_vars

(***************************************************************************)
(* Claims about the favorite toggle (checked under SpecFavorite)           *)
(***************************************************************************)
\* The (level, IP) pairs of a favorites table.
FavoritePairs(favoriteTable) == {<<r.level_id, r.ip_address>> : r \in favoriteTable}

\* C21: every successful POST /api/levels/L/favorite by IP a adds the
\* favorite (L, a) if it was absent and removes it if it was present, leaves
\* every other (level, IP) favorite unchanged, leaves levels.favorites of L
\* equal to the number of favorites rows of L (whatever it was before), and
\* the second of two consecutive successful requests by a on L restores the
\* favorites there were before the first.
C21_FavoriteToggle ==
    (res.route = "favorite" /\ res.status = 200) =>
        LET pair == <<res.id.v, res.ip>>
            was == FavoritePairs(res.before.favorites)
            is == FavoritePairs(favorites)
        IN  /\ res.id.v \in DOMAIN levels
            /\ pair \in is <=> pair \notin was
            /\ is \ {pair} = was \ {pair}
            /\ {r \in favorites : <<r.level_id, r.ip_address>> # pair}
                  = {r \in res.before.favorites : <<r.level_id, r.ip_address>> # pair}
            /\ Cardinality(favorites) = Cardinality(is)
            /\ levels[res.id.v].favorites
                  = Cardinality({r \in favorites : r.level_id = res.id.v})
            /\ \A l \in DOMAIN levels \ {res.id.v} : levels[l] = res.before.levels[l]
            /\ DOMAIN levels = DOMAIN res.before.levels
            /\ (/\ res.previous.route = "favorite" /\ res.previous.status = 200
                /\ res.previous.ip = res.ip /\ res.previous.id = res.id)
                  => is = FavoritePairs(res.previous.before.favorites)

\* C21 witness: a favorite of ip_a on level 1 has been removed by a
\* successful request of ip_a, while ip_b's favorite of level 1 stayed and
\* the counter of level 1 went to 1.
C21_Witness_ToggledOff ==
    /\ res.route = "favorite" /\ res.status = 200
    /\ res.id = JSNum(1) /\ res.ip = "ip_a"
    /\ <<1, "ip_a">> \in FavoritePairs(res.before.favorites)
    /\ <<1, "ip_a">> \notin FavoritePairs(favorites)
    /\ <<1, "ip_b">> \in FavoritePairs(favorites)
    /\ levels[1].favorites = 1

\* The requests that are not successful change no favorite and no level:
\* 429 of the favorite limiter, 400 for an id that is not a number, 404 for
\* an id without a level.
FavoriteRefusalsChangeNothing ==
    (res.route = "favorite" /\ res.status # 200) =>
        /\ res.status \in {400, 404, 429}
        /\ favorites = res.before.favorites /\ levels = res.before.levels
        /\ res.status = 400 <=> (res.error = "Invalid level ID" /\ res.id = JSNaN)
        /\ res.status = 404 => res.id.v \notin DOMAIN levels

\* The favorite limiter has refused a request.
FavoriteLimiterRefused == res.route = "favorite" /\ res.status = 429

(***************************************************************************)
(* POST /api/levels (part_001 77-271).  The handler is a chain of checks,  *)
(* each of which answers and returns when it fails; the rows, the file and *)
(* the authors entry are written after the last of them.  What the awaited *)
(* services answer (captcha, moderation) is an input of the request.       *)
(***************************************************************************)
UPLOAD_WINDOW_MS == 60000

Answer(status, error, message) == [status |-> status, error |-> error, message |-> message]
Passed == Answer(0, "", "")

\* req.query.author.slice(0, 11), on the names of AuthorNames.
Slice11(author) == IF author = "CrazyDaveTheThird" THEN "CrazyDaveTh" ELSE author

\* `${levelId}.izl${version === 1 ? "" : version}`: the name under which the
\* upload stores a level and decodeLevelFromDisk opens it.
VersionDigits(version) ==
    IF version = 1 THEN "1" ELSE IF version = 2 THEN "2" ELSE IF version = 3 THEN "3" ELSE "?"
LevelFileName(levelId, version) ==
    [id |-> levelId, ext |-> IF version = 1 THEN "izl" ELSE "izl" \o VersionDigits(version)]

\* if (!contentType.includes("application/octet-stream"))
uploadContentTypeCheck(contentType) ==
    IF contentType # "application/octet-stream"
    THEN Answer(415, "Unsupported Media Type",
                "Only application/octet-stream uploads are supported.")
    ELSE Passed

\* if (!author || !levelBinary); a body is present (a Buffer) or not.
uploadInputCheck(author, bodyPresent) ==
    IF author = "" \/ ~bodyPresent THEN Answer(400, "Invalid input", "") ELSE Passed

\* The limiter lets every request through (the mutant of C28).
uploadLimiterCheck_NoLimit(limiter, clientIP, now) == Passed

\* lastUploadMs = uploadRateLimitByIp.get(clientIP) ?? 0, and the test on
\* elapsedMs.
uploadLimiterCheck(limiter, clientIP, now) ==
    LET elapsedMs == now - MapGet(limiter, clientIP, 0)
    IN  IF elapsedMs >= 0 /\ elapsedMs < UPLOAD_WINDOW_MS
        THEN Answer(429, "Rate limit exceeded",
                    "Only 1 level upload per minute is allowed per user.")
        ELSE Passed

\* The format check lets every body through (the mutant of C22).
uploadVersionCheck_AnyVersion(levelBinary) == Passed

\* const version = detectFileVersion(levelBinary); if (version !== 3)
uploadVersionCheck(levelBinary) ==
    IF detectFileVersion(levelBinary) # 3
    THEN Answer(400, "Invalid level data format",
                "Only IZL3 levels are supported. IZL2 is deprecated.")
    ELSE Passed

\* catch (decodeError) around decodeFile
uploadDecodeCheck(decodedFile) ==
    IF decodedFile.result.threw
    THEN Answer(400, "Invalid level data format", "Could not decode the level data")
    ELSE Passed

\* const [isValid, errorMessage] = validateClone(cloneData); if (!isValid)
uploadValidateCheck(cloneData) ==
    IF ~validateClone(cloneData).ok
    THEN Answer(400, "Invalid level data", "The level data failed validation checks")
    ELSE Passed

\* if (!name || isNaN(sun)), on a name that is a string and a sun that is an
\* integer (what the Clones of UploadBodies hold).
uploadNameSunCheck(cloneData) ==
    IF cloneData.name = "" \/ cloneData.sun \notin Int
    THEN Answer(400, "Invalid level data",
                "Level data must contain a valid name and sun value")
    ELSE Passed

\* The captcha is not asked (the mutant of C27).
uploadCaptchaCheck_NotAsked(turnstileValid) == Passed

\* if (!turnstileResult.valid)
uploadCaptchaCheck(turnstileValid) ==
    IF ~turnstileValid THEN Answer(400, "Captcha validation failed", "") ELSE Passed

\* if (nameResult.flagged || authorResult.flagged)
uploadModerationCheck(nameFlagged, authorFlagged) ==
    IF nameFlagged \/ authorFlagged THEN Answer(400, "Content moderation failed", "")
    ELSE Passed

\* The first check of a chain that did not pass, or Passed.
RECURSIVE FirstRefusal(_)
FirstRefusal(checks) ==
    IF checks = <<>> THEN Passed
    ELSE IF Head(checks) # Passed THEN Head(checks)
    ELSE FirstRefusal(Tail(checks))

\* AUTOINCREMENT: last_insert_rowid() of the INSERT (no row is deleted
\* between two uploads here).
NextLevelId(levelTable) ==
    IF DOMAIN levelTable = {} THEN 1
    ELSE (CHOOSE n \in DOMAIN levelTable : \A k \in DOMAIN levelTable : k <= n) + 1

AuthorRow(names, originIp, levelIds) ==
    [names |-> names, origin_ip |-> originIp, first_level_id |-> levelIds[1],
     level_ids |-> levelIds]

\* SELECT * FROM authors WHERE names = ? AND origin_ip = ?, then UPDATE of
\* level_ids or INSERT.
saveAuthor(authorTable, author, clientIP, levelId) ==
    IF \E a \in authorTable : a.names = author /\ a.origin_ip = clientIP
    THEN {IF a.names = author /\ a.origin_ip = clientIP
          THEN [a EXCEPT !.level_ids = Append(a.level_ids, levelId)]
          ELSE a : a \in authorTable}
    ELSE authorTable \cup {AuthorRow(author, clientIP, <<levelId>>)}

\* The bytes the handler hands to Deno.writeFile: the upload's (the
\* alternative, the encoder's output for the Clone, is the reading of C26).
storedBytes_Canonical(levelBinary, cloneData) == encodeIZL3File(cloneData).value
storedBytes(levelBinary, cloneData) == levelBinary

\* The handler.  Of the Map it changes only the key of clientIP, when the
\* limiter lets the request through; the purge of a Map of more than 10 000
\* keys is out of reach of ClientIPs.
postLevel(levelTable, fileTable, authorTable, limiter, req, now) ==
    LET author == Slice11(req.author)
        early == FirstRefusal(<<uploadContentTypeCheck(req.contentType),
                                uploadInputCheck(author, req.bodyPresent),
                                uploadLimiterCheck(limiter, req.ip, now)>>)
        started == MapSet(limiter, req.ip, now)
        format == uploadVersionCheck(req.body)
        decodedFile == decodeFile(req.body, req.lib)
        cloneData == decodedFile.result.value
        late == FirstRefusal(<<uploadDecodeCheck(decodedFile)>>
                    \o IF decodedFile.result.threw THEN <<>>
                       ELSE <<uploadValidateCheck(cloneData)>>
                    \o IF decodedFile.result.threw \/ ~validateClone(cloneData).ok THEN <<>>
                       ELSE <<uploadNameSunCheck(cloneData),
                              uploadCaptchaCheck(req.turnstileValid),
                              uploadModerationCheck(req.nameFlagged, req.authorFlagged)>>)
        levelId == NextLevelId(levelTable)
        is_water == Len(cloneData.lfValue) >= 4 /\ cloneData.lfValue[4] = 2
        nothing == [levels |-> levelTable, files |-> fileTable, authors |-> authorTable,
                    decodeCalled |-> FALSE, started |-> early = Passed]
    IN  IF early # Passed
        THEN [answer |-> early, limiter |-> limiter] @@ nothing
        ELSE IF format # Passed
        THEN [answer |-> format, limiter |-> started] @@ nothing
        ELSE IF late # Passed
        THEN [answer |-> late, limiter |-> started, decodeCalled |-> TRUE] @@ nothing
        ELSE [answer |-> Answer(201, "", ""), limiter |-> started, decodeCalled |-> TRUE,
              started |-> TRUE,
              levels |-> MapSet(levelTable, levelId,
                                LevelRow(cloneData.name, author, cloneData.sun, is_water, 3)),
              files |-> MapSet(fileTable, LevelFileName(levelId, 3),
                               storedBytes(req.body, cloneData)),
              authors |-> saveAuthor(authorTable, author, req.ip, levelId)]

(***************************************************************************)
(* SpecUpload: uploads with time passing.  A request deviates in at most   *)
(* one of its fields from a request that is accepted, or in two of them:   *)
(* a failed captcha with a body that is not the accepted one or with a     *)
(* flagged name, or a Format-2 body with a wrong content type or without   *)
(* author.  Both IPs send the accepted request, ip_a the others.           *)
(***************************************************************************)
UploadClone(name, sun, lf) ==
    [FullClone(<<Placement("oPeashooter", 0, 0)>>, sun, "Cerebrawl", 5, lf)
        EXCEPT !.name = name]

CanonicalBody == encodeIZL3File(UploadClone("Level", 100, LandLf)).value
Format2Body == Bytes(<<>>, Stream(9, Izl2Text(SampleIzl2Pairs)))

\* Format-3 bodies: the encoder's output for a level, a water level, a level
\* without a name and a level the validator refuses; the first level
\* deflated at the default level instead of level 9; the magic followed by
\* bytes that are no stream.  Then a Format-2 body and a Format-1 body.
UploadBodies ==
    { CanonicalBody,
      encodeIZL3File(UploadClone("Pool", 100, WaterLf)).value,
      encodeIZL3File(UploadClone("", 100, LandLf)).value,
      encodeIZL3File(UploadClone("Level", MAX_SUN + 1, LandLf)).value,
      Bytes(IZL3_HEADER, Stream(6, CanonicalBody.z.content)),
      Bytes(IZL3_HEADER \o <<1>>, NoStream),
      Format2Body,
      Bytes(<<1, 2>>, NoStream) }

AuthorNames == {"", "Dave", "CrazyDaveTheThird"}

GoodRequest ==
    [contentType |-> "application/octet-stream", author |-> "Dave", bodyPresent |-> TRUE,
     body |-> CanonicalBody, lib |-> "throws", turnstileValid |-> TRUE,
     nameFlagged |-> FALSE, authorFlagged |-> FALSE]

AllRequests ==
    [contentType : {"application/octet-stream", "application/json"},
     author : AuthorNames, bodyPresent : BOOLEAN, body : UploadBodies,
     lib : PakoOnGarbage, turnstileValid : BOOLEAN,
     nameFlagged : BOOLEAN, authorFlagged : BOOLEAN]

Deviations(r) == {f \in DOMAIN r : r[f] # GoodRequest[f]}

UploadRequests ==
    { r \in AllRequests :
          \/ Cardinality(Deviations(r)) <= 1
          \/ /\ Cardinality(Deviations(r)) = 2
             /\ \/ "turnstileValid" \in Deviations(r)
                     /\ Deviations(r) \cap {"body", "nameFlagged"} # {}
                \/ r.body = Format2Body
                     /\ (r.contentType # GoodRequest.contentType \/ r.author = "") }

\* The requests of the limiter's runs: accepted, and refused by the format
\* check, by the validator and by the captcha.
LimiterRequests ==
    { r \in UploadRequests :
          /\ Deviations(r) \subseteq {"body", "turnstileValid"}
          /\ Cardinality(Deviations(r)) <= 1
          /\ r.body \in {CanonicalBody, Format2Body,
                         encodeIZL3File(UploadClone("Level", MAX_SUN + 1, LandLf)).value} }

MaxUploads == 2

UploadInstants == {ClockStart, ClockStart + UPLOAD_WINDOW_MS}
LimiterInstants ==
    {ClockStart + k : k \in {0, UPLOAD_WINDOW_MS - 1, UPLOAD_WINDOW_MS}}

InitUploadAt(position) ==
    /\ pc = position
    /\ levels = EmptyMap /\ files = EmptyMap /\ authors = {}
    /\ uploadRateLimitByIp = EmptyMap
    /\ nowMs = ClockStart
    /\ res = NoResponse @@ [passes |-> <<>>, refused |-> <<>>]
    /\ favorites = Unset /\ downloadRateLimitByIp = Unset /\ favoriteRateLimitByIp = Unset
    /\ arr = Unset /\ packed = Unset /\ unpacked = Unset
    /\ clone = Unset /\ encoded = Unset /\ decoded = Unset
    /\ validation = Unset
    /\ buf = Unset /\ str = Unset /\ routed = Unset
    /\ admin_tokens = Unset /\ issued = Unset /\ through = Unset /\ last = Unset

\* One POST /api/levels: the handler, and the record of the request, with
\* the history of the requests the limiter let through and of those it
\* answered 429.
Serve(req) ==
    LET h == postLevel(levels, files, authors, uploadRateLimitByIp, req, nowMs)
    IN  /\ levels' = h.levels
        /\ files' = h.files
        /\ authors' = h.authors
        /\ uploadRateLimitByIp' = h.limiter
        /\ res' = [route |-> "upload", req |-> req, at |-> nowMs,
                   status |-> h.answer.status, answer |-> h.answer,
                   started |-> h.started, decodeCalled |-> h.decodeCalled,
                   served |-> res.served + 1,
                   passes |-> IF h.started
                              THEN Append(res.passes, [ip |-> req.ip, at |-> nowMs])
                              ELSE res.passes,
                   refused |-> IF h.answer.status = 429
                               THEN Append(res.refused, [ip |-> req.ip, at |-> nowMs])
                               ELSE res.refused,
                   before |-> [levels |-> levels, files |-> files,
                               authors |-> authors, limiter |-> uploadRateLimitByIp]]
        /\ UNCHANGED <<pc, nowMs, favorites, downloadRateLimitByIp, favoriteRateLimitByIp,
                       tokenVars, packVars, codecVars, validateVars, detectVars>>

AdvanceTo(instants) ==
    /\ \E t \in instants : t > nowMs /\ nowMs' = t
    /\ UNCHANGED <<pc, levels, favorites, authors, files, uploadRateLimitByIp,
                   downloadRateLimitByIp, favoriteRateLimitByIp, res,
                   tokenVars, packVars, codecVars, validateVars, detectVars>>

InitUpload == InitUploadAt("upload.serving")

Upload ==
    /\ pc = "upload.serving"
    /\ res.served < MaxUploads
    /\ \E r \in UploadRequests, clientIP \in ClientIPs :
          /\ clientIP = "ip_a" \/ r = GoodRequest
          /\ Serve(r @@ [ip |-> clientIP])

AdvanceUpload == pc = "upload.serving" /\ AdvanceTo(UploadInstants)

NextUpload == Upload \/ AdvanceUpload

SpecUpload == InitUpload /\ [][NextUpload]_vars

(***************************************************************************)
(* SpecUploadLimiter: the same handler under requests of both IPs at the   *)
(* instants around the end of a window.                                    *)
(***************************************************************************)
InitUploadLimiter == InitUploadAt("limiter.serving")

UploadInWindow ==
    /\ pc = "limiter.serving"
    /\ res.served < MaxRequests
    /\ \E r \in LimiterRequests, clientIP \in ClientIPs : Serve(r @@ [ip |-> clientIP])

AdvanceUploadLimiter == pc = "limiter.serving" /\ AdvanceTo(LimiterInstants)

NextUploadLimiter == UploadInWindow \/ AdvanceUploadLimiter

SpecUploadLimiter == InitUploadLimiter /\ [][NextUploadLimiter]_vars

(***************************************************************************)
(* Claims about uploads (checked under SpecUpload)                         *)
(***************************************************************************)
\* The request created nothing: no levels row, no level file, no authors
\* entry (and changed none).
CreatedNothing ==
    /\ levels = res.before.levels
    /\ files = res.before.files
    /\ authors = res.before.authors

NewLevelFile == files[LevelFileName(NextLevelId(res.before.levels), 3)]
ValidatedClone == decodeFile(res.req.body, res.req.lib).result.value

\* C26: for an accepted upload, the bytes stored for the new level are the
\* canonical encoder's Format-3 output for the decoded and validated Clone,
\* not the uploaded bytes as received, and decoding the stored file yields
\* the Clone that was validated.
\* (Violated: the handler writes the request body; a body deflated at the
\* default level is stored as it came.)
C26_StoredBytesAreCanonical ==
    (res.route = "upload" /\ res.status = 201) =>
        /\ NewLevelFile = storedBytes_Canonical(res.req.body, ValidatedClone)
        /\ \A lib \in PakoOnGarbage :
              decodeFile(NewLevelFile, lib).result = Returned(ValidatedClone)

\* What does hold: the stored file is the request body, byte for byte, and
\* therefore decodes to the Clone that was validated.
StoredBytesAreTheUpload ==
    (res.route = "upload" /\ res.status = 201) =>
        /\ NewLevelFile = res.req.body
        /\ \A lib \in PakoOnGarbage :
              decodeFile(NewLevelFile, lib).result = Returned(ValidatedClone)

\* An accepted upload whose body is not the encoder's output for its Clone.
NonCanonicalUploadStored ==
    /\ res.route = "upload" /\ res.status = 201
    /\ res.req.body # encodeIZL3File(ValidatedClone).value
    /\ NewLevelFile = res.req.body

\* The steps of the gate, in the order of the claim, as properties of the
\* request: the step at which the request fails, 0 when it fails at none.
\* (A step is looked at only when the steps before it were passed: a body
\* that does not decode has no Clone to validate.)
GateDecoded == ~decodeFile(res.req.body, res.req.lib).result.threw
FailingStep ==
    IF ~HasMagic(res.req.body) THEN 1
    ELSE IF ~GateDecoded THEN 2
    ELSE IF ~validateClone(ValidatedClone).ok THEN 3
    ELSE IF ValidatedClone.name = "" \/ ValidatedClone.sun \notin Int THEN 4
    ELSE IF ~res.req.turnstileValid THEN 5
    ELSE IF res.req.nameFlagged \/ res.req.authorFlagged THEN 6
    ELSE 0

GateErrors ==
    << "Invalid level data format", "Invalid level data format", "Invalid level data",
       "Invalid level data", "Captcha validation failed", "Content moderation failed" >>

\* C27: a levels row and a level file are created only by a request whose
\* body was detected as version 3, decoded without error, accepted by
\* validateClone, found to have a non-empty name and a numeric sun, and
\* that passed the captcha and the moderation of name and author; the steps
\* are taken in this order (the answer is that of the first step failed);
\* a request that fails a step creates no levels row, no level file and no
\* authors entry.
C27_UploadGate ==
    res.route = "upload" =>
        /\ res.status = 201 <=> (res.started /\ FailingStep = 0)
        /\ (res.started /\ FailingStep # 0) =>
              /\ res.status = 400
              /\ res.answer.error = GateErrors[FailingStep]
              /\ res.decodeCalled <=> FailingStep > 1
        /\ res.status # 201 => CreatedNothing
        /\ res.status = 201 =>
              LET levelId == NextLevelId(res.before.levels)
              IN  /\ DOMAIN levels = DOMAIN res.before.levels \cup {levelId}
                  /\ \A l \in DOMAIN res.before.levels : levels[l] = res.before.levels[l]
                  /\ levels[levelId].name = ValidatedClone.name
                  /\ levels[levelId].sun = ValidatedClone.sun
                  /\ levels[levelId].version = 3
                  /\ DOMAIN files = DOMAIN res.before.files \cup {LevelFileName(levelId, 3)}
                  /\ \A f \in DOMAIN res.before.files : files[f] = res.before.files[f]
                  /\ \E a \in authors :
                        /\ a.origin_ip = res.req.ip
                        /\ a.names = Slice11(res.req.author)
                        /\ a.level_ids[Len(a.level_ids)] = levelId

\* C27 witness: after an accepted upload, a request whose Clone the
\* validator refuses and whose captcha is not valid either was answered for
\* the validator's refusal, and created nothing.
C27_Witness_ValidatorBeforeCaptcha ==
    /\ res.route = "upload" /\ res.started
    /\ FailingStep = 3 /\ ~res.req.turnstileValid
    /\ res.answer.error = "Invalid level data"
    /\ DOMAIN levels # {}

\* A second level of the same author from the same IP has been accepted.
SecondLevelOfAuthor ==
    /\ res.route = "upload" /\ res.status = 201
    /\ \E a \in authors : Len(a.level_ids) = 2

(***************************************************************************)
(* Claims about the upload limiter (checked under SpecUploadLimiter)       *)
(***************************************************************************)
\* The requests let through before the last request, and the time of the
\* latest of them by the IP of the last request (0 - 1 when there is none).
PriorPasses ==
    IF res.started THEN SubSeq(res.passes, 1, Len(res.passes) - 1) ELSE res.passes
LatestPriorPass ==
    LET mine == {i \in 1..Len(PriorPasses) : PriorPasses[i].ip = res.req.ip}
    IN  IF mine = {} THEN 0 - 1
        ELSE PriorPasses[CHOOSE i \in mine : \A j \in mine : j <= i].at

\* C28: per client IP, two upload requests that pass the upload limiter are
\* at least 60 000 ms apart; a request arriving less than 60 000 ms after
\* the last request of its IP that passed is answered 429 and leaves the
\* window where it was (a later request is measured from the request that
\* passed, not from the refused one); every request that passes starts the
\* window at its own time, whatever answer it gets afterwards.
C28_UploadRateLimit ==
    res.route = "upload" =>
        /\ \A i, j \in 1..Len(res.passes) :
              (i < j /\ res.passes[i].ip = res.passes[j].ip)
                 => res.passes[j].at - res.passes[i].at >= UPLOAD_WINDOW_MS
        /\ res.started <=>
              (LatestPriorPass = 0 - 1 \/ res.at - LatestPriorPass >= UPLOAD_WINDOW_MS)
        /\ ~res.started =>
              /\ res.status = 429
              /\ uploadRateLimitByIp = res.before.limiter
              /\ uploadRateLimitByIp[res.req.ip] = LatestPriorPass
              /\ CreatedNothing
        /\ res.started =>
              /\ res.status \in {201, 400}
              /\ uploadRateLimitByIp[res.req.ip] = res.at
              /\ \A ip \in DOMAIN uploadRateLimitByIp \ {res.req.ip} :
                    ip \in DOMAIN res.before.limiter
                      /\ uploadRateLimitByIp[ip] = res.before.limiter[ip]

\* C28 witness: ip_a's request at the start passed and was then refused (no
\* level exists before the last request), its request 59 999 ms later was
\* answered 429, and its request 60 000 ms after the first one passed.
C28_Witness_WindowNotRestarted ==
    /\ res.route = "upload" /\ res.started /\ res.req.ip = "ip_a"
    /\ res.at = ClockStart + UPLOAD_WINDOW_MS
    /\ LatestPriorPass = ClockStart
    /\ DOMAIN res.before.levels = {}
    /\ \E i \in 1..Len(res.refused) :
          res.refused[i] = [ip |-> "ip_a", at |-> ClockStart + UPLOAD_WINDOW_MS - 1]

\* The window was started by a request that the format check then refused.
WindowStartedByRefusedUpload ==
    /\ res.route = "upload" /\ res.started /\ res.status = 400
    /\ ~HasMagic(res.req.body)
    /\ uploadRateLimitByIp[res.req.ip] = res.at

(***************************************************************************)
(* GET /api/levels/:id/download (part_001 36-43, 433-506)                  *)
(***************************************************************************)
DOWNLOAD_WINDOW_MS == 5000
DOWNLOAD_LIMIT == 5
DOWNLOAD_BLOCK_MS == 30000

DownloadState(events, blockedUntilMs) == [events |-> events, blockedUntilMs |-> blockedUntilMs]

\* `${levelId}.izl${typedLevel.version || 3}`: the name under which the
\* download and the admin delete look for the file of a level.
LevelFileNameOr3(levelId, version) ==
    [id |-> levelId, ext |-> "izl" \o VersionDigits(IF version = 0 THEN 3 ELSE version)]

NoFile == Bytes(<<>>, NoStream)

\* The block is never looked at (the mutant of C29).
downloadBlocked_Never(state, now) == FALSE

\* if (nowMs < state.blockedUntilMs)
downloadBlocked(state, now) == now < state.blockedUntilMs

\* The handler: the block, the window, the id, the level, the plays
\* counter, the file.  A request refused while blocked leaves the Map as it
\* is (the array it would prune is not reached); the purge of a Map of more
\* than 20 000 keys is out of reach of ClientIPs.
downloadLevel(levelTable, fileTable, limiter, levelId, clientIP, now) ==
    LET state == MapGet(limiter, clientIP, DownloadState(<<>>, 0))
        events == pruneOldestTimestamps(state.events, now - DOWNLOAD_WINDOW_MS)
        blocking == MapSet(limiter, clientIP, DownloadState(<<>>, now + DOWNLOAD_BLOCK_MS))
        counted == MapSet(limiter, clientIP,
                          DownloadState(Append(events, now), state.blockedUntilMs))
        fileName == LevelFileNameOr3(levelId.v, levelTable[levelId.v].version)
        played == [levelTable EXCEPT ![levelId.v].plays = @ + 1]
        refusal(status, error, message, map, passed) ==
            [answer |-> Answer(status, error, message), levels |-> levelTable,
             limiter |-> map, sent |-> NoFile, passed |-> passed]
    IN  IF downloadBlocked(state, now)
        THEN refusal(429, "Rate limit exceeded", "Too many downloads. Try again later.",
                     limiter, FALSE)
        ELSE IF Len(events) >= DOWNLOAD_LIMIT
        THEN refusal(429, "Rate limit exceeded",
                     "Too many downloads. Blocked for 30 seconds.", blocking, FALSE)
        ELSE IF levelId = JSNaN THEN refusal(400, "Invalid level ID", "", counted, TRUE)
        ELSE IF levelId.v \notin DOMAIN levelTable
        THEN refusal(404, "Level not found", "", counted, TRUE)
        ELSE IF fileName \notin DOMAIN fileTable
        THEN [answer |-> Answer(404, "Level file not found", ""), levels |-> played,
              limiter |-> counted, sent |-> NoFile, passed |-> TRUE]
        ELSE [answer |-> Answer(200, "", ""), levels |-> played, limiter |-> counted,
              sent |-> fileTable[fileName], passed |-> TRUE]

(***************************************************************************)
(* SpecDownload: downloads by two IPs of a Format-3 level, of levels of    *)
(* version 1 (stored as <id>.izl), of an id without a level and of an id   *)
(* that is not a number, at the instants around the end of a window and of *)
(* a block.  At the start ip_a has no entry, or has sent all the requests  *)
(* of a window, or has just been blocked.                                  *)
(***************************************************************************)
DownloadInstants ==
    {ClockStart + k : k \in {0, DOWNLOAD_WINDOW_MS - 1, DOWNLOAD_WINDOW_MS,
                             DOWNLOAD_BLOCK_MS - 1, DOWNLOAD_BLOCK_MS}}

DownloadIds == {JSNum(1), JSNum(2), JSNum(MaxLevel + 1), JSNaN}

WindowAtStart == [i \in 1..DOWNLOAD_LIMIT |-> ClockStart]
PassesAtStart == [i \in 1..DOWNLOAD_LIMIT |-> [ip |-> "ip_a", at |-> ClockStart]]

InitDownload ==
    /\ pc = "download.serving"
    /\ levels = [l \in LevelIds |->
                    LevelRow("Level", "Dave", 100, FALSE, IF l = 1 THEN 3 ELSE 1)]
    /\ files = [f \in {LevelFileName(l, IF l = 1 THEN 3 ELSE 1) : l \in LevelIds} |->
                   CanonicalBody]
    /\ nowMs = ClockStart
    /\ \/ /\ downloadRateLimitByIp = EmptyMap
          /\ res = NoResponse @@ [passes |-> <<>>, blocks |-> <<>>]
       \/ /\ downloadRateLimitByIp =
                MapSet(EmptyMap, "ip_a", DownloadState(WindowAtStart, 0))
          /\ res = NoResponse @@ [passes |-> PassesAtStart, blocks |-> <<>>]
       \/ /\ downloadRateLimitByIp =
                MapSet(EmptyMap, "ip_a",
                       DownloadState(<<>>, ClockStart + DOWNLOAD_BLOCK_MS))
          /\ res = NoResponse @@ [passes |-> PassesAtStart,
                                  blocks |-> <<[ip |-> "ip_a", at |-> ClockStart]>>]
    /\ favorites = Unset /\ authors = Unset
    /\ uploadRateLimitByIp = Unset /\ favoriteRateLimitByIp = Unset
    /\ arr = Unset /\ packed = Unset /\ unpacked = Unset
    /\ clone = Unset /\ encoded = Unset /\ decoded = Unset
    /\ validation = Unset
    /\ buf = Unset /\ str = Unset /\ routed = Unset
    /\ admin_tokens = Unset /\ issued = Unset /\ through = Unset /\ last = Unset

\* One download, and its record: the history of the requests the limiter
\* let through and of the requests that started a block.
Download ==
    /\ pc = "download.serving"
    /\ res.served < MaxRequests
    /\ \E levelId \in DownloadIds, clientIP \in ClientIPs :
          LET h == downloadLevel(levels, files, downloadRateLimitByIp, levelId, clientIP, nowMs)
              here == [ip |-> clientIP, at |-> nowMs]
              blocking == ~h.passed /\ h.limiter # downloadRateLimitByIp
          IN  /\ levels' = h.levels
              /\ downloadRateLimitByIp' = h.limiter
              /\ res' = [route |-> "download", ip |-> clientIP, id |-> levelId, at |-> nowMs,
                         status |-> h.answer.status, answer |-> h.answer, sent |-> h.sent,
                         passed |-> h.passed, served |-> res.served + 1,
                         passes |-> IF h.passed THEN Append(res.passes, here) ELSE res.passes,
                         blocks |-> IF blocking THEN Append(res.blocks, here) ELSE res.blocks,
                         before |-> [levels |-> levels, limiter |-> downloadRateLimitByIp,
                                     blocks |-> res.blocks]]
    /\ UNCHANGED <<pc, nowMs, favorites, authors, files, uploadRateLimitByIp,
                   favoriteRateLimitByIp, tokenVars, packVars, codecVars, validateVars,
                   detectVars>>

AdvanceDownload == pc = "download.serving" /\ AdvanceTo(DownloadInstants)

NextDownload == Download \/ AdvanceDownload

SpecDownload == InitDownload /\ [][NextDownload]_vars

(***************************************************************************)
(* Claims about the download limiter (checked under SpecDownload)          *)
(***************************************************************************)
\* The request falls into a block of its IP: one started, before it, less
\* than 30 000 ms ago.
DuringBlock ==
    \E i \in 1..Len(res.before.blocks) :
        /\ res.before.blocks[i].ip = res.ip
        /\ res.at - res.before.blocks[i].at < DOWNLOAD_BLOCK_MS

\* The events recorded for the IP that are less than 5 000 ms old.
EventsInWindow ==
    pruneOldestTimestamps(
        MapGet(res.before.limiter, res.ip, DownloadState(<<>>, 0)).events,
        res.at - DOWNLOAD_WINDOW_MS)

ServedAfterBlock ==
    /\ res.route = "download" /\ res.status = 200 /\ res.ip = "ip_a"
    /\ \E i \in 1..Len(res.blocks) :
          res.blocks[i].ip = "ip_a" /\ res.at = res.blocks[i].at + DOWNLOAD_BLOCK_MS

\* A request has started a block.
BlockStarted ==
    /\ res.route = "download" /\ res.status = 429 /\ ~DuringBlock
    /\ Len(res.blocks) = Len(res.before.blocks) + 1

\* The file of a level of version 1 is stored as <id>.izl and looked for as
\* <id>.izl1: the request is counted as a play and answered 404.
Version1DownloadNotFound ==
    (res.route = "download" /\ res.passed /\ res.id = JSNum(2)) =>
        /\ res.answer = Answer(404, "Level file not found", "")
        /\ levels[2].plays = res.before.levels[2].plays + 1

(***************************************************************************)
(* Reading a stored level (levels_io.ts 33-45) and the listings            *)
(* (part_001 274-379, 382-430; db.ts 237-242)                              *)
(***************************************************************************)
\* decodeLevelFromDisk: Deno.readFile throws on a missing file; every
\* exception becomes decodeError, and decoded is then null.
DecodeError(message) == [failed |-> TRUE, decodeError |-> message]
DecodedLevel(levelData) == [failed |-> FALSE, decoded |-> levelData]

decodeLevelFromDisk(fileTable, levelId, version, lib) ==
    IF LevelFileName(levelId, version) \notin DOMAIN fileTable
    THEN DecodeError("NotFound")
    ELSE IF decodeFile(fileTable[LevelFileName(levelId, version)], lib).result.threw
    THEN DecodeError(decodeFile(fileTable[LevelFileName(levelId, version)], lib).result.kind)
    ELSE DecodedLevel(decodeFile(fileTable[LevelFileName(levelId, version)], lib).result.value)

\* The thumbnail of a level: null, or one entry per placement: the index of
\* its plantName in allPlantsStringArray (-1 when it is not in the list)
\* and its eleLeft, eleTop, eleWidth, eleHeight and zIndex, each undefined
\* (absent here) when the placement has no such field.
ThumbnailFields == {"eleLeft", "eleTop", "eleWidth", "eleHeight", "zIndex"}
NullThumbnail == [null |-> TRUE, entries |-> <<>>]
Thumbnail(entries) == [null |-> FALSE, entries |-> entries]

ThumbnailEntry(plant) ==
    [plant |-> IF Has(plant, "plantName") /\ plant.plantName.t = "string"
               THEN IndexOf(allPlantsStringArray, plant.plantName.v)
               ELSE 0 - 1,
     shown |-> [f \in DOMAIN plant \cap ThumbnailFields |-> plant[f]]]

\* The body of the map callback of GET /api/levels and of GET
\* /api/levels/:id: decoded.plants.map throws a TypeError when the decoded
\* object has no plants.
levelWithThumbnail(fileTable, levelId, version, lib) ==
    LET levelData == decodeLevelFromDisk(fileTable, levelId, version, lib)
    IN  IF levelData.failed THEN Returned(NullThumbnail)
        ELSE IF ~Has(levelData.decoded, "plants") THEN Threw("TypeError", <<>>)
        ELSE Returned(Thumbnail([i \in 1..Len(levelData.decoded.plants) |->
                                    ThumbnailEntry(levelData.decoded.plants[i])]))

\* getTokenLevelId: the level of a token, 0 for null.
getTokenLevelId(tokenTable, token) ==
    IF \E r \in tokenTable : r.token = token
    THEN (CHOOSE r \in tokenTable : r.token = token).level_id
    ELSE 0

NoListing == [x \in {} |-> NullThumbnail]

\* GET /api/levels, with the token of its query ("" when it has none) and
\* no other filter, on a table of at most 10 levels (one page): the status,
\* and the thumbnail of every level listed.
getLevels(levelTable, fileTable, tokenTable, token, lib) ==
    LET tokenLevelId == IF token # "" THEN getTokenLevelId(tokenTable, token) ELSE 0
        listed == IF tokenLevelId # 0 THEN DOMAIN levelTable \cap {tokenLevelId}
                  ELSE DOMAIN levelTable
        mapped == [l \in listed |->
                      levelWithThumbnail(fileTable, l, levelTable[l].version, lib)]
    IN  IF token # "" /\ tokenLevelId = 0
        THEN [status |-> 401, error |-> "Invalid token", listing |-> NoListing]
        ELSE IF \E l \in listed : mapped[l].threw
        THEN [status |-> 500, error |-> "Failed to list levels", listing |-> NoListing]
        ELSE IF tokenLevelId # 0 /\ listed = {}
        THEN [status |-> 404, error |-> "Level not found", listing |-> NoListing]
        ELSE [status |-> 200, error |-> "", listing |-> [l \in listed |-> mapped[l].value]]

\* GET /api/levels/:id, with parseInt of its id (0 stands for NaN).
getLevel(levelTable, fileTable, levelId, lib) ==
    IF levelId = 0
    THEN [status |-> 400, error |-> "Invalid level ID", listing |-> NoListing]
    ELSE IF levelId \notin DOMAIN levelTable
    THEN [status |-> 404, error |-> "Level not found", listing |-> NoListing]
    ELSE IF levelWithThumbnail(fileTable, levelId, levelTable[levelId].version, lib).threw
    THEN [status |-> 500, error |-> "Failed to get level", listing |-> NoListing]
    ELSE [status |-> 200, error |-> "",
          listing |-> [l \in {levelId} |->
                          levelWithThumbnail(fileTable, l, levelTable[l].version, lib).value]]

(***************************************************************************)
(* Admin edit and delete (routes/admin.ts 93-256, 370-449; levels_io.ts    *)
(* 253-258).  A field of the JSON body is absent (undefined after the      *)
(* destructuring), null, or given with a value.  Of the nine fields the    *)
(* handler reads the model keeps name, author, sun and plays; is_water,    *)
(* difficulty, favorites, featured and featured_at are handled as plays    *)
(* is.  The levels of the model have no logging_data, so the handler       *)
(* creates no token for the links of a log message.                        *)
(***************************************************************************)
Absent == [k |-> "absent"]
JSONNull == [k |-> "null"]
Given(v) == [k |-> "given", v |-> v]

PutBody(name, author, sun, plays) ==
    [name |-> name, author |-> author, sun |-> sun, plays |-> plays]

EditedFields == {"name", "author", "sun", "plays"}

\* name !== undefined
Defined(x) == x.k # "absent"

\* name !== existingLevel.name: undefined and null differ from every stored
\* value.
Differs(x, stored) == ~(x.k = "given" /\ x.v = stored)

\* UPDATE levels SET ... WHERE id = ?: the row with the given fields set.
\* Every column edited is NOT NULL: a null makes the statement throw.
UpdateThrows(body) == \E f \in EditedFields : body[f].k = "null"

UpdatedRow(row, body) ==
    [f \in DOMAIN row |->
        IF f \in EditedFields /\ body[f].k = "given" THEN body[f].v ELSE row[f]]

\* levelData.decoded.name = name: the field is set to the value, or to
\* undefined.  msgpack writes undefined as nil and the decoder reads nil as
\* null: a field set to undefined is a field the Clone read back does not
\* hold as name or sun, and the model leaves it out.
AssignField(levelData, field, x) ==
    IF x.k = "given" THEN MapSet(levelData, field, x.v)
    ELSE Without(levelData, {field})

\* levelData.decoded.name = name; levelData.decoded.sun = sun;
AssignEdited(levelData, body) ==
    AssignField(AssignField(levelData, "name", body.name), "sun", body.sun)

PutAnswer(status, error, levelTable, fileTable) ==
    [status |-> status, error |-> error, levels |-> levelTable, files |-> fileTable]

\* The handler of PUT /api/admin/levels/:id, with parseInt of the id (0
\* stands for NaN and for 0): the answer and the tables it leaves.
\* encodeIZL3FileToDisk always writes <id>.izl3; encodeIZL3File runs, and
\* may throw, before the handler answers; the write it starts is not
\* awaited and is taken as done when the answer is sent.
putLevel(levelTable, fileTable, levelId, body, lib) ==
    IF levelId = 0 THEN PutAnswer(400, "Invalid level ID", levelTable, fileTable)
    ELSE IF levelId \notin DOMAIN levelTable
    THEN PutAnswer(404, "Level not found", levelTable, fileTable)
    ELSE IF \A f \in EditedFields : ~Defined(body[f])
    THEN PutAnswer(400, "No fields to update", levelTable, fileTable)
    ELSE IF UpdateThrows(body)
    THEN PutAnswer(500, "Failed to update level", levelTable, fileTable)
    ELSE LET existingLevel == levelTable[levelId]
             updated == [levelTable EXCEPT ![levelId] = UpdatedRow(existingLevel, body)]
             levelData == decodeLevelFromDisk(fileTable, levelId, existingLevel.version, lib)
             rewritten == encodeIZL3File(AssignEdited(levelData.decoded, body))
         IN  IF ~(Differs(body.name, existingLevel.name) \/ Differs(body.sun, existingLevel.sun))
             THEN PutAnswer(200, "", updated, fileTable)
             ELSE IF levelData.failed THEN PutAnswer(200, "", updated, fileTable)
             ELSE IF rewritten.threw
             THEN PutAnswer(500, "Failed to update level", updated, fileTable)
             ELSE PutAnswer(200, "", updated,
                            MapSet(fileTable, LevelFileName(levelId, 3), rewritten.value))

DeleteAnswer(status, error, levelTable, favoriteTable, authorTable, fileTable) ==
    [status |-> status, error |-> error, levels |-> levelTable,
     favorites |-> favoriteTable, authors |-> authorTable, files |-> fileTable]

\* levelIds.filter((id) => id !== levelId)
WithoutLevel(levelIds, levelId) == SelectSeq(levelIds, LAMBDA id : id # levelId)

\* await Deno.remove(`${levelId}.izl${typedLevel.version || 3}`): the file
\* is gone; a missing file makes it throw, which the handler logs and
\* passes over.
RemoveFile(fileTable, path) == [f \in DOMAIN fileTable \ {path} |-> fileTable[f]]

\* The handler of DELETE /api/admin/levels/:id.  It does not touch
\* admin_tokens.
deleteLevel(levelTable, favoriteTable, authorTable, fileTable, levelId) ==
    IF levelId = 0
    THEN DeleteAnswer(400, "Invalid level ID", levelTable, favoriteTable, authorTable, fileTable)
    ELSE IF levelId \notin DOMAIN levelTable
    THEN DeleteAnswer(404, "Level not found", levelTable, favoriteTable, authorTable, fileTable)
    ELSE DeleteAnswer(200, "",
            [l \in DOMAIN levelTable \ {levelId} |-> levelTable[l]],
            {r \in favoriteTable : r.level_id # levelId},
            {[a EXCEPT !.level_ids = WithoutLevel(a.level_ids, levelId)] : a \in authorTable},
            RemoveFile(fileTable, LevelFileNameOr3(levelId, levelTable[levelId].version)))

(***************************************************************************)
(* SpecAdmin: PUT and DELETE on /api/admin/levels/:id behind the           *)
(* middleware, and GET /api/levels with or without a token, on a server    *)
(* holding a Format-3 level (level 1) and levels of version 1, stored as   *)
(* <id>.izl the way the upload handler and decodeLevelFromDisk name them;  *)
(* favorites and authors rows for them; a token for level 1, a token for   *)
(* level 2 and a token left over from a level deleted before.              *)
(***************************************************************************)
MaxEdits == 2

DeletedLevel == MaxLevel + 1
AdminVersion(l) == IF l = 1 THEN 3 ELSE 1
Format1Body == Bytes(<<>>, Stream(6, JsonText(UploadClone("Level", 100, LandLf))))

NoBody == PutBody(Absent, Absent, Absent, Absent)
FullEdit == PutBody(Given("Renamed"), Absent, Given(200), Absent)
NullName == PutBody(JSONNull, Absent, Absent, Absent)

\* Bodies: no field; name and sun; sun alone; name alone; another field
\* alone; a null name; name and sun as they are stored; the author and
\* the stored name.
AdminPutBodies ==
    { NoBody, FullEdit, NullName,
      PutBody(Absent, Absent, Given(200), Absent),
      PutBody(Given("Renamed"), Absent, Absent, Absent),
      PutBody(Absent, Absent, Absent, Given(7)),
      PutBody(Given("Level"), Absent, Given(100), Absent),
      PutBody(Given("Level"), Given("Zomboss"), Absent, Absent) }

TokenPutBodies == {NoBody, FullEdit, NullName}

\* What a request without session carries: a token and an id.
TokenRequests ==
    { <<"token_A", 1>>, <<"token_A", 2>>, <<"token_B", 2>>, <<"token_C", DeletedLevel>>,
      <<"token_forged", 1>>, <<"token_A", 0>>, <<"", 1>> }

AdminRequest(admin, token, id, body) ==
    [admin |-> admin, token |-> token, id |-> id, body |-> body]

PutRequests ==
    {AdminRequest(TRUE, "", l, b) : l \in LevelIds, b \in AdminPutBodies}
    \cup {AdminRequest(TRUE, "", l, FullEdit) : l \in {0, DeletedLevel}}
    \cup {AdminRequest(FALSE, p[1], p[2], b) : p \in TokenRequests, b \in TokenPutBodies}

DeleteRequests ==
    {AdminRequest(TRUE, "", l, NoBody) : l \in 0..DeletedLevel}
    \cup {AdminRequest(FALSE, p[1], p[2], NoBody) : p \in TokenRequests}

ListRequests ==
    {AdminRequest(FALSE, t, 0, NoBody) : t \in {"", "token_A", "token_C", "token_forged"}}

Tables == [levels |-> levels, favorites |-> favorites, authors |-> authors,
           files |-> files, admin_tokens |-> admin_tokens]

\* The record of a request: what it carried, whether the middleware let it
\* through, the answer, and the tables before it.
AdminServed(route, req, passed, status, error) ==
    [route |-> route, admin |-> req.admin, token |-> req.token, id |-> req.id,
     body |-> req.body, passed |-> passed, status |-> status, error |-> error,
     served |-> res.served + 1, before |-> Tables]

InitAdmin ==
    /\ pc = "admin.serving"
    /\ levels = [l \in LevelIds |->
                    [LevelRow("Level", "Dave", 100, FALSE, AdminVersion(l))
                        EXCEPT !.favorites = IF l = 1 THEN 2 ELSE 1]]
    /\ files = [f \in {LevelFileName(l, AdminVersion(l)) : l \in LevelIds} |->
                   IF f.id = 1 THEN CanonicalBody ELSE Format1Body]
    /\ favorites = {FavoriteRow(l, "ip_a", ClockStart) : l \in LevelIds}
                   \cup {FavoriteRow(1, "ip_b", ClockStart)}
    /\ authors = {AuthorRow("Dave", "ip_a", <<1>>),
                  AuthorRow("Dave", "ip_b", [i \in 1..(MaxLevel - 1) |-> i + 1])}
    /\ admin_tokens = {Row("token_A", 1), Row("token_B", 2), Row("token_C", DeletedLevel)}
    /\ res = [route |-> "none", admin |-> FALSE, token |-> "", id |-> 0, body |-> NoBody,
              passed |-> FALSE, status |-> 0, error |-> "", served |-> 0,
              before |-> [levels |-> EmptyMap, favorites |-> {}, authors |-> {},
                          files |-> EmptyMap, admin_tokens |-> {}]]
    /\ issued = Unset /\ through = Unset /\ last = Unset
    /\ uploadRateLimitByIp = Unset /\ downloadRateLimitByIp = Unset
    /\ favoriteRateLimitByIp = Unset /\ nowMs = Unset
    /\ arr = Unset /\ packed = Unset /\ unpacked = Unset
    /\ clone = Unset /\ encoded = Unset /\ decoded = Unset
    /\ validation = Unset
    /\ buf = Unset /\ str = Unset /\ routed = Unset

\* PUT /api/admin/levels/:id: the middleware, then the handler.
AdminPut ==
    /\ pc = "admin.serving"
    /\ res.served < MaxEdits
    /\ \E req \in PutRequests, lib \in PakoOnGarbage :
          LET m == ensureAuthenticatedOrConsumeTokenForLevelParam(
                       admin_tokens, req.admin, req.token, req.id)
              h == putLevel(levels, files, req.id, req.body, lib)
          IN  /\ admin_tokens' = m.table
              /\ levels' = IF m.answer.passed THEN h.levels ELSE levels
              /\ files' = IF m.answer.passed THEN h.files ELSE files
              /\ res' = IF m.answer.passed
                        THEN AdminServed("PUT", req, TRUE, h.status, h.error)
                        ELSE AdminServed("PUT", req, FALSE, m.answer.status, m.answer.error)
    /\ UNCHANGED <<pc, favorites, authors, issued, through, last, uploadRateLimitByIp,
                   downloadRateLimitByIp, favoriteRateLimitByIp, nowMs,
                   packVars, codecVars, validateVars, detectVars>>

\* DELETE /api/admin/levels/:id: the middleware, then the handler.
AdminDelete ==
    /\ pc = "admin.serving"
    /\ res.served < MaxEdits
    /\ \E req \in DeleteRequests :
          LET m == ensureAuthenticatedOrConsumeTokenForLevelParam(
                       admin_tokens, req.admin, req.token, req.id)
              h == deleteLevel(levels, favorites, authors, files, req.id)
          IN  /\ admin_tokens' = m.table
              /\ levels' = IF m.answer.passed THEN h.levels ELSE levels
              /\ favorites' = IF m.answer.passed THEN h.favorites ELSE favorites
              /\ authors' = IF m.answer.passed THEN h.authors ELSE authors
              /\ files' = IF m.answer.passed THEN h.files ELSE files
              /\ res' = IF m.answer.passed
                        THEN AdminServed("DELETE", req, TRUE, h.status, h.error)
                        ELSE AdminServed("DELETE", req, FALSE, m.answer.status, m.answer.error)
    /\ UNCHANGED <<pc, issued, through, last, uploadRateLimitByIp,
                   downloadRateLimitByIp, favoriteRateLimitByIp, nowMs,
                   packVars, codecVars, validateVars, detectVars>>

\* GET /api/levels with or without ?token=: no middleware, no write.
AdminList ==
    /\ pc = "admin.serving"
    /\ res.served < MaxEdits
    /\ \E req \in ListRequests, lib \in PakoOnGarbage :
          LET h == getLevels(levels, files, admin_tokens, req.token, lib)
          IN  res' = AdminServed("GET", req, TRUE, h.status, h.error)
    /\ UNCHANGED <<pc, levels, favorites, authors, files, admin_tokens, issued, through,
                   last, uploadRateLimitByIp, downloadRateLimitByIp,
                   favoriteRateLimitByIp, nowMs,
                   packVars, codecVars, validateVars, detectVars>>

NextAdmin == AdminPut \/ AdminDelete \/ AdminList

SpecAdmin == InitAdmin /\ [][NextAdmin]_vars

(***************************************************************************)
(* Claims about the admin routes (checked under SpecAdmin)                 *)
(***************************************************************************)
Edited == res.route = "PUT" /\ res.passed /\ res.status = 200
Deleted == res.route = "DELETE" /\ res.passed /\ res.status = 200

\* What a reader of a level gets: decodeLevelFromDisk on the row's version.
ReaderClone(levelId, lib) ==
    decodeLevelFromDisk(files, levelId, levels[levelId].version, lib)

FileFollowsRow(levelId) ==
    \A lib \in PakoOnGarbage :
        /\ ~ReaderClone(levelId, lib).failed
        /\ Has(ReaderClone(levelId, lib).decoded, "name")
        /\ Has(ReaderClone(levelId, lib).decoded, "sun")
        /\ ReaderClone(levelId, lib).decoded.name = levels[levelId].name
        /\ ReaderClone(levelId, lib).decoded.sun = levels[levelId].sun

NameOrSunChanged ==
    \/ levels[res.id].name # res.before.levels[res.id].name
    \/ levels[res.id].sun # res.before.levels[res.id].sun

\* C24: after a successful PUT /api/admin/levels/L that changed the name or
\* the sun of L's row, the file readers of L open decodes to a Clone whose
\* name and sun are those of the row, whatever fields the body supplied.
C24_EditKeepsFileConsistent ==
    (Edited /\ NameOrSunChanged) => FileFollowsRow(res.id)

\* What does hold: the edit of a Format-3 level whose body gives both name
\* and sun leaves the file with the row's name and sun.
FullEditKeepsFileConsistent ==
    (Edited /\ NameOrSunChanged /\ levels[res.id].version = 3
        /\ Defined(res.body.name) /\ Defined(res.body.sun))
    => FileFollowsRow(res.id)

\* A body with sun and no name: the row has the new sun and keeps its name,
\* the file has the new sun and no name.
SunOnlyEditDropsName ==
    /\ Edited /\ res.id = 1 /\ res.body = PutBody(Absent, Absent, Given(200), Absent)
    /\ levels[1].sun = 200 /\ levels[1].name = "Level"
    /\ \A lib \in PakoOnGarbage :
          /\ ~ReaderClone(1, lib).failed
          /\ ReaderClone(1, lib).decoded.sun = 200
          /\ ~Has(ReaderClone(1, lib).decoded, "name")

\* A body with neither name nor sun rewrites the file without both.
OtherFieldEditDropsNameAndSun ==
    /\ Edited /\ res.id = 1 /\ res.body = PutBody(Absent, Absent, Absent, Given(7))
    /\ levels[1].plays = 7
    /\ \A lib \in PakoOnGarbage :
          /\ ~ReaderClone(1, lib).failed
          /\ ~Has(ReaderClone(1, lib).decoded, "name")
          /\ ~Has(ReaderClone(1, lib).decoded, "sun")

\* The edit of a level of version 1 writes <id>.izl3 and leaves <id>.izl,
\* the file its readers open, as it was.
Version1EditWritesOtherFile ==
    /\ Edited /\ res.id = 2 /\ res.body = FullEdit
    /\ LevelFileName(2, 3) \in DOMAIN files
    /\ LevelFileName(2, 3) \notin DOMAIN res.before.files
    /\ files[LevelFileName(2, 1)] = res.before.files[LevelFileName(2, 1)]

\* C23: after a successful DELETE /api/admin/levels/L the row of L and the
\* favorites rows of L are gone, no author lists L, no stored level file of
\* L is left, and the rows, favorites, author entries and files of every
\* other level are as before.
C23_DeleteRemovesEverything ==
    Deleted =>
        /\ res.id \notin DOMAIN levels
        /\ \A r \in favorites : r.level_id # res.id
        /\ \A a \in authors : \A i \in 1..Len(a.level_ids) : a.level_ids[i] # res.id
        /\ \A f \in DOMAIN files : f.id # res.id
        /\ DOMAIN levels = DOMAIN res.before.levels \ {res.id}
        /\ \A l \in DOMAIN levels : levels[l] = res.before.levels[l]
        /\ favorites = {r \in res.before.favorites : r.level_id # res.id}
        /\ authors = {[a EXCEPT !.level_ids = WithoutLevel(a.level_ids, res.id)] :
                         a \in res.before.authors}
        /\ \A f \in DOMAIN res.before.files :
              f.id # res.id => f \in DOMAIN files /\ files[f] = res.before.files[f]

\* What does hold: the database part for every level, and the file part
\* for a level of version 3 that was never edited into a second file.
DeleteRemovesRows ==
    Deleted =>
        /\ res.id \notin DOMAIN levels
        /\ \A r \in favorites : r.level_id # res.id
        /\ \A a \in authors : \A i \in 1..Len(a.level_ids) : a.level_ids[i] # res.id
        /\ DOMAIN levels = DOMAIN res.before.levels \ {res.id}
        /\ \A l \in DOMAIN levels : levels[l] = res.before.levels[l]
        /\ favorites = {r \in res.before.favorites : r.level_id # res.id}
        /\ authors = {[a EXCEPT !.level_ids = WithoutLevel(a.level_ids, res.id)] :
                         a \in res.before.authors}
        /\ \A f \in DOMAIN res.before.files :
              f.id # res.id => f \in DOMAIN files /\ files[f] = res.before.files[f]

DeleteOfFormat3LevelRemovesFile ==
    (Deleted /\ res.before.levels[res.id].version = 3)
    => \A f \in DOMAIN files : f.id # res.id

\* The deleted level of version 1 leaves its file behind.
Version1FileLeftBehind ==
    /\ Deleted /\ res.id = 2
    /\ LevelFileName(2, 1) \in DOMAIN files

\* C30: a token's row leaves admin_tokens exactly in a PUT or DELETE
\* without session that carries the token and its level and that the
\* middleware lets through, whatever the handler then answers; every such
\* request let through had the row, and no request adds or removes another
\* row: GET /api/levels?token= and the deletion of the level leave the
\* table as it is.
C30_TokenConsumptionPoint ==
    res.served > 0 =>
        /\ admin_tokens \subseteq res.before.admin_tokens
        /\ \A r \in res.before.admin_tokens :
              r \notin admin_tokens <=>
                  /\ res.route \in {"PUT", "DELETE"}
                  /\ ~res.admin /\ res.passed
                  /\ res.token = r.token /\ res.id = r.level_id
        /\ (res.route \in {"PUT", "DELETE"} /\ ~res.admin /\ res.passed)
              => Row(res.token, res.id) \in res.before.admin_tokens

\* A PUT carrying the token of level 1 after level 1 was deleted: let
\* through, answered 404, and the token is used up.
C30_Witness_UsedUpByEditOfDeletedLevel ==
    /\ res.route = "PUT" /\ ~res.admin /\ res.passed /\ res.status = 404
    /\ res.token = "token_A" /\ res.id = 1
    /\ Row("token_A", 1) \in res.before.admin_tokens
    /\ Row("token_A", 1) \notin admin_tokens

TokenUsedUpByEmptyEdit ==
    /\ res.route = "PUT" /\ ~res.admin /\ res.passed /\ res.status = 400
    /\ res.error = "No fields to update"
    /\ Row(res.token, res.id) \notin admin_tokens

TokenUsedUpByFailedEdit ==
    /\ res.route = "PUT" /\ ~res.admin /\ res.passed /\ res.status = 500
    /\ Row(res.token, res.id) \notin admin_tokens

TokenSurvivesDeletionOfItsLevel ==
    /\ Deleted /\ res.admin /\ res.id = 1
    /\ Row("token_A", 1) \in admin_tokens

TokenReadByListing ==
    /\ res.route = "GET" /\ res.token = "token_A" /\ res.status = 200
    /\ Row("token_A", 1) \in admin_tokens

(***************************************************************************)
(* SpecListing: GET /api/levels and GET /api/levels/:id on a server whose  *)
(* levels have version 3, 2 or 1 and whose data folder holds, for each     *)
(* level, the file a writer of its generation produced, no file, or a      *)
(* damaged file.                                                           *)
(***************************************************************************)
MissingFile == [stored |-> FALSE, bytes |-> NoFile]
StoredFile(bytes) == [stored |-> TRUE, bytes |-> bytes]

\* The magic followed by bytes that are no stream; a zlib stream cut after
\* its two header bytes; a file of no bytes.
GarbledFormat3Body == Bytes(IZL3_HEADER \o <<1>>, NoStream)
TruncatedStreamBody == Bytes(<<ZLIB_HEADER_BYTE, ZLIB_LEVEL9_BYTE>>, NoStream)
EmptyBody == Bytes(<<>>, NoStream)

\* A level's version and what the data folder holds under its file name.
StoredLevels ==
    { [version |-> 3, file |-> StoredFile(CanonicalBody)],
      [version |-> 3, file |-> MissingFile],
      [version |-> 3, file |-> StoredFile(GarbledFormat3Body)],
      [version |-> 3, file |-> StoredFile(TruncatedStreamBody)],
      [version |-> 2, file |-> StoredFile(Format2Body)],
      [version |-> 2, file |-> StoredFile(TruncatedStreamBody)],
      [version |-> 1, file |-> StoredFile(Format1Body)],
      [version |-> 1, file |-> StoredFile(EmptyBody)] }

InitListing ==
    /\ pc = "listing.serving"
    /\ \E stored \in [LevelIds -> StoredLevels] :
          /\ levels = [l \in LevelIds |->
                          LevelRow("Level", "Dave", 100, FALSE, stored[l].version)]
          /\ files = [f \in {LevelFileName(l, stored[l].version) :
                                l \in {k \in LevelIds : stored[k].file.stored}} |->
                         stored[f.id].file.bytes]
    /\ admin_tokens = {Row("token_A", 1)}
    /\ res = [route |-> "none", token |-> "", id |-> 0, lib |-> "throws", status |-> 0,
              error |-> "", listing |-> NoListing]
    /\ favorites = Unset /\ authors = Unset
    /\ issued = Unset /\ through = Unset /\ last = Unset
    /\ uploadRateLimitByIp = Unset /\ downloadRateLimitByIp = Unset
    /\ favoriteRateLimitByIp = Unset /\ nowMs = Unset
    /\ arr = Unset /\ packed = Unset /\ unpacked = Unset
    /\ clone = Unset /\ encoded = Unset /\ decoded = Unset
    /\ validation = Unset
    /\ buf = Unset /\ str = Unset /\ routed = Unset

\* GET /api/levels, with or without ?token=.
ListLevels ==
    /\ pc = "listing.serving"
    /\ \E token \in {"", "token_A", "token_forged"}, lib \in PakoOnGarbage :
          LET h == getLevels(levels, files, admin_tokens, token, lib)
          IN  res' = [route |-> "list", token |-> token, id |-> 0, lib |-> lib,
                      status |-> h.status, error |-> h.error, listing |-> h.listing]
    /\ UNCHANGED <<pc, levels, favorites, authors, files, uploadRateLimitByIp,
                   downloadRateLimitByIp, favoriteRateLimitByIp, nowMs,
                   tokenVars, packVars, codecVars, validateVars, detectVars>>

\* GET /api/levels/:id.
GetLevel ==
    /\ pc = "listing.serving"
    /\ \E levelId \in 0..(MaxLevel + 1), lib \in PakoOnGarbage :
          LET h == getLevel(levels, files, levelId, lib)
          IN  res' = [route |-> "get", token |-> "", id |-> levelId, lib |-> lib,
                      status |-> h.status, error |-> h.error, listing |-> h.listing]
    /\ UNCHANGED <<pc, levels, favorites, authors, files, uploadRateLimitByIp,
                   downloadRateLimitByIp, favoriteRateLimitByIp, nowMs,
                   tokenVars, packVars, codecVars, validateVars, detectVars>>

NextListing == ListLevels \/ GetLevel

SpecListing == InitListing /\ [][NextListing]_vars

(***************************************************************************)
(* Claims about the listings (checked under SpecListing)                   *)
(***************************************************************************)
\* The levels a request asks for: all of them, the token's, or the one of
\* the id.
Asked ==
    IF res.route = "get" THEN DOMAIN levels \cap {res.id}
    ELSE IF res.token = "" THEN DOMAIN levels
    ELSE DOMAIN levels \cap {getTokenLevelId(admin_tokens, res.token)}

StoredBytesOf(levelId) == files[LevelFileName(levelId, levels[levelId].version)]

FileMissing(levelId) ==
    LevelFileName(levelId, levels[levelId].version) \notin DOMAIN files

\* The decoder throws on the file.
DecoderThrows(levelId, lib) ==
    /\ ~FileMissing(levelId)
    /\ decodeFile(StoredBytesOf(levelId), lib).result.threw

\* The file holds a level: the decoder returns a Clone with its placements.
HoldsLevel(levelId, lib) ==
    /\ ~FileMissing(levelId)
    /\ ~decodeFile(StoredBytesOf(levelId), lib).result.threw
    /\ Has(decodeFile(StoredBytesOf(levelId), lib).result.value, "plants")

Listing == res.route \in {"list", "get"} /\ Asked # {}

\* C25: a listing of levels that exist is answered 200 whatever the state
\* of their files; a level whose file is missing or does not decode to a
\* level is returned with thumbnail = null, and every other level of the
\* listing with its thumbnail.
C25_DecodeFailureIsSoft ==
    Listing =>
        /\ res.status = 200
        /\ DOMAIN res.listing = Asked
        /\ \A l \in Asked :
              res.listing[l].null <=> ~HoldsLevel(l, res.lib)

\* What does hold: a missing file and an exception of the decoder are
\* reported as decodeError and, as long as every other file of the listing
\* holds a level or fails the same way, the listing is answered 200, the
\* levels concerned have thumbnail = null and the others their thumbnails.
DecodeErrorsAreSoft ==
    (Listing /\ \A l \in Asked :
                    FileMissing(l) \/ DecoderThrows(l, res.lib) \/ HoldsLevel(l, res.lib))
    => /\ res.status = 200
       /\ DOMAIN res.listing = Asked
       /\ \A l \in Asked :
             /\ (FileMissing(l) \/ DecoderThrows(l, res.lib)) => res.listing[l].null
             /\ HoldsLevel(l, res.lib) => ~res.listing[l].null
       /\ \A l \in Asked :
             decodeLevelFromDisk(files, l, levels[l].version, res.lib).failed
                <=> (FileMissing(l) \/ DecoderThrows(l, res.lib))

\* A listing of two levels, one without file and one with a Format-3 file.
MissingFileNextToThumbnail ==
    /\ res.route = "list" /\ res.token = "" /\ res.status = 200
    /\ \E l \in Asked : FileMissing(l) /\ res.listing[l].null
    /\ \E l \in Asked : HoldsLevel(l, res.lib) /\ ~res.listing[l].null

\* A file that is a zlib stream cut short, where pako.inflate returns
\* undefined: the decoder returns an object without fields, and the whole
\* listing is answered 500.
TruncatedFileFailsListing ==
    /\ res.route = "list" /\ res.token = "" /\ res.status = 500
    /\ \E l \in Asked :
          /\ ~FileMissing(l) /\ StoredBytesOf(l) = TruncatedStreamBody
          /\ ~decodeLevelFromDisk(files, l, levels[l].version, res.lib).failed
    /\ \E l \in Asked : HoldsLevel(l, res.lib)

\* The Format-1 file of a level of version 1 is taken for Format 2 (it
\* starts with 0x78) and decodes to an object without fields as well.
Format1FileFailsGet ==
    /\ res.route = "get" /\ res.status = 500
    /\ levels[res.id].version = 1
    /\ ~FileMissing(res.id) /\ StoredBytesOf(res.id) = Format1Body

====
